---- MODULE Spec2Model ----
(***************************************************************************)
(* A model of the TickTick MCP server's core: the resilient transport of   *)
(* TickTickClient (_make_request, _refresh_access_token, the urllib3 Retry *)
(* mounted on the session), the process-wide client of client_manager, the *)
(* batch creation tool, the project scanner and the mutating tools.        *)
(*                                                                         *)
(* The process is single-threaded: one tool runs at a time, and a tool     *)
(* that calls the transport waits for it.  The remote service and the      *)
(* token endpoint are the environment: every network exchange is one step  *)
(* whose reply is chosen freely among the replies below.  The service is   *)
(* taken to speak its protocol as far as typing goes: a 2xx body is empty  *)
(* or a JSON value of the expected type; keys inside it may be missing.    *)
(***************************************************************************)
EXTENDS Integers, Sequences, FiniteSets, TLC

VARIABLES
    env,               \* os.environ as read by os.getenv
    _client_instance,  \* client_manager._client_instance (a TickTickClient or None)
    rq,                \* the activation of TickTickClient._make_request
    tool,              \* the activation of the tool (or manager call) that runs
    created_tasks,     \* batch_create_tasks_tool: created_tasks
    failed_tasks,      \* batch_create_tasks_tool: failed_tasks
    validation_errors, \* batch_create_tasks_tool: validation_errors
    calls,             \* history: the client calls of the running tool, in order
    net,               \* history: TRUE once the running tool has sent anything
    now,               \* datetime.now(timezone.utc), as the filters read it
    task,              \* the task a filter is applied to
    filtered           \* what filter_func(task) did: its value, or its exception

vars == <<env, _client_instance, rq, tool, created_tasks, failed_tasks,
          validation_errors, calls, net, now, task, filtered>>

\* the variables of the tools, and those of the task filters
tools_vars == <<env, _client_instance, rq, tool, created_tasks, failed_tasks,
               validation_errors, calls, net>>
classify_vars == <<now, task, filtered>>

-----------------------------------------------------------------------------
(* Python values *)

\* None, in a field that otherwise holds a string
None == "None"
\* a key that a JSON object or a dict does not have
Absent == "Absent"
\* None, in a field that otherwise holds an integer (status_code, priority)
NoneInt == -1
\* a key that a dict of integers does not have (task_data without 'priority')
AbsentInt == -2

\* A str, as far as the code looks at it: len(s) and len(s.strip())
Str(n, m) == [len |-> n, strip |-> m]
\* None, or a missing key, in a field that otherwise holds such a str
NoneStr == Str(NoneInt, NoneInt)
\* `not s`
Falsy(s) == s = NoneStr \/ s.len = 0

\* truthiness of an Optional[str] holding a token
Truthy(s) == s # None /\ s # Absent /\ s # ""

-----------------------------------------------------------------------------
(* Bounds of the model *)

\* longest batch handed to batch_create_tasks_tool
MaxBatch == 2
\* longest project list handed to the scanner
MaxProjects == 2
\* last day of the calendar the due dates are taken from (days count from 0)
MaxDay == 10

-----------------------------------------------------------------------------
(* The remote service *)

\* urllib3 Retry(total=3): retries allowed after the first send
RetryTotal == 3
\* (mutant) 404 is retried as well
status_forcelist_With404 == {404, 429, 500, 502, 503, 504}
status_forcelist == {429, 500, 502, 503, 504}

\* the statuses the service answers with
Statuses == {200, 204, 400, 401, 403, 404, 429, 500, 501}
NoResponse == [status |-> 0, body |-> ""]

\* one exchange on the wire: a response, or a failure below HTTP
RawReplies ==
    {[kind |-> "response", status |-> 200, body |-> b] : b \in {"", "json"}}
    \cup {[kind |-> "response", status |-> 204, body |-> ""]}
    \cup {[kind |-> "response", status |-> s, body |-> "errbody"] :
              s \in Statuses \ {200, 204}}
    \cup {[kind |-> "response", status |-> 404, body |-> ""]}
    \cup {[kind |-> k, status |-> 0, body |-> ""] :
              k \in {"ConnectionError", "ReadTimeout", "ChunkedEncodingError"}}

\* what the token endpoint answers to the refresh POST
TokenReplies ==
    {[kind |-> "response", status |-> 200, access_token |-> a, refresh_token |-> r] :
         a \in {"a1", Absent}, r \in {"r1", Absent}}
    \cup {[kind |-> "response", status |-> 400, access_token |-> Absent,
           refresh_token |-> Absent]}
    \cup {[kind |-> "ConnectionError", status |-> 0, access_token |-> Absent,
           refresh_token |-> Absent]}

-----------------------------------------------------------------------------
(* TickTickClient *)

NoClient ==
    [set |-> FALSE, client_id |-> None, client_secret |-> None,
     access_token |-> None, refresh_token |-> None, Authorization |-> None]

Bearer(token) == "Bearer " \o token

\* TickTickClient.__init__: the instance built from the environment
TickTickClient ==
    [set |-> TRUE,
     client_id |-> env.TICKTICK_CLIENT_ID,
     client_secret |-> env.TICKTICK_CLIENT_SECRET,
     access_token |-> env.TICKTICK_ACCESS_TOKEN,
     refresh_token |-> env.TICKTICK_REFRESH_TOKEN,
     Authorization |-> Bearer(env.TICKTICK_ACCESS_TOKEN)]

\* requests.Response.__bool__ is Response.ok: False for every 4xx and 5xx
ResponseBool(response) == response.status # 0 /\ response.status < 400

\* Response.raise_for_status raises HTTPError for 4xx and 5xx
raise_for_status(response) == response.status >= 400 /\ response.status < 600

Success(payload) ==
    [kind |-> "success", type |-> "", status_code |-> NoneInt, error |-> "",
     payload |-> payload]
Failure(type, status_code, error) ==
    [kind |-> "failure", type |-> type, status_code |-> status_code,
     error |-> error, payload |-> ""]
Raised(exception) ==
    [kind |-> "raised", type |-> exception, status_code |-> NoneInt,
     error |-> exception, payload |-> ""]
NoResult ==
    [kind |-> "none", type |-> "", status_code |-> NoneInt, error |-> "",
     payload |-> ""]

\* str(e) of the HTTPError of raise_for_status: "<status> Client Error: <reason> ..."
HTTPErrorMsg(response) ==
    CASE response.status = 400 -> "400 Client Error: Bad Request for url"
      [] response.status = 401 -> "401 Client Error: Unauthorized for url"
      [] response.status = 403 -> "403 Client Error: Forbidden for url"
      [] response.status = 404 -> "404 Client Error: Not Found for url"
      [] response.status = 429 -> "429 Client Error: Too Many Requests for url"
      [] response.status = 500 -> "500 Server Error: Internal Server Error for url"
      [] response.status = 501 -> "501 Server Error: Not Implemented for url"
      [] OTHER -> "HTTP error"

\* _make_request, except requests.exceptions.HTTPError
HTTPErrorStatusCode(response) ==
    IF ResponseBool(response) THEN response.status ELSE NoneInt

HandleHTTPError(response) ==
    LET status_code == HTTPErrorStatusCode(response)
        error_msg == HTTPErrorMsg(response)
    IN  IF status_code = 401 THEN
            Failure("auth", 401, "Authentication failed. Token expired or invalid.")
        ELSE IF status_code = 403 THEN
            Failure("permission", 403,
                    "Permission denied. You don't have access to this resource.")
        ELSE IF status_code = 404 THEN
            Failure("not_found", 404, "Resource not found. It may have been deleted.")
        ELSE IF status_code # NoneInt /\ status_code >= 500 THEN
            Failure("server_error", status_code, "TickTick server error")
        ELSE
            Failure("api", status_code, error_msg)

\* (mutant) the last clause, except RequestException, left out
HandleRequestException_NoCatchAll(exception) ==
    CASE exception = "ConnectionError" ->
            Failure("network", NoneInt, "Network connection failed")
      [] exception = "Timeout" ->
            Failure("timeout", NoneInt, "Request timed out")
      [] OTHER ->
            Raised(exception)

\* _make_request, the other except clauses, in their order: the first clause
\* that matches the class of the exception handles it
HandleRequestException(exception) ==
    CASE exception = "ConnectionError" ->
            Failure("network", NoneInt, "Network connection failed")
      [] exception = "Timeout" ->
            Failure("timeout", NoneInt, "Request timed out")
      [] OTHER ->
            Failure("unknown", NoneInt, exception)

\* (mutant) the body of a 200 is dropped: every success returns {}
Finish_DropsPayload(response) ==
    IF raise_for_status(response) THEN HandleHTTPError(response)
    ELSE Success("{}")

\* (mutant) an empty body is handed to response.json(), whose JSONDecodeError
\* the RequestException clause takes
Finish_ParsesEmptyBody(response) ==
    IF raise_for_status(response) THEN HandleHTTPError(response)
    ELSE IF response.body = "" THEN Failure("unknown", NoneInt, "JSONDecodeError")
    ELSE Success(response.body)

\* _make_request from raise_for_status to the return
Finish(response) ==
    IF raise_for_status(response) THEN HandleHTTPError(response)
    ELSE IF response.status = 204 \/ response.body = "" THEN Success("{}")
    ELSE Success(response.body)

\* (mutant) the adapter allows one retry more than Retry(total=3)
AdapterOutcome_OneRetryMore(tries, reply) ==
    CASE reply.kind = "response" /\ reply.status \in status_forcelist ->
            IF tries <= RetryTotal THEN "retry" ELSE "RetryError"
      [] reply.kind = "response" -> "response"
      [] reply.kind = "ConnectionError" ->
            IF tries <= RetryTotal THEN "retry" ELSE "ConnectionError"
      [] reply.kind = "ReadTimeout" ->
            IF tries <= RetryTotal THEN "retry" ELSE "Timeout"
      [] OTHER -> reply.kind

\* What the session's adapter does with one exchange, `tries` retries already
\* used: urllib3 sends again while the Retry has retries left, on a status of
\* the forcelist and on a failure below HTTP of a method it may retry (all of
\* GET, POST, PUT, DELETE); with none left it raises, and requests turns that
\* into RetryError, ConnectionError or ReadTimeout.  A body that breaks off
\* (ChunkedEncodingError) is raised while requests reads it, past the Retry.
AdapterOutcome(tries, reply) ==
    CASE reply.kind = "response" /\ reply.status \in status_forcelist ->
            IF tries < RetryTotal THEN "retry" ELSE "RetryError"
      [] reply.kind = "response" -> "response"
      [] reply.kind = "ConnectionError" ->
            IF tries < RetryTotal THEN "retry" ELSE "ConnectionError"
      [] reply.kind = "ReadTimeout" ->
            IF tries < RetryTotal THEN "retry" ELSE "Timeout"
      [] OTHER -> reply.kind

\* history of the running session call (urllib3 keeps it in the call's Retry
\* object): the exchange after which the adapter last sent the request again
NotRetried == [kind |-> "none", status |-> 0]

\* _refresh_access_token, line 217: `tokens`, before the token response is parsed
NoTokens == [access_token |-> Absent, refresh_token |-> Absent]

IdleRq ==
    [pc |-> "idle", method |-> "", tries |-> 0, retried_on |-> NotRetried,
     sends |-> 0, refresh_calls |-> 0,
     token_posts |-> 0, refreshed |-> "none", first |-> NoResponse,
     response |-> NoResponse, cause |-> "", result |-> NoResult,
     headers |-> None, tokens |-> NoTokens]

SupportedMethods == {"GET", "POST", "DELETE"}
Methods == SupportedMethods \cup {"PUT"}

\* _make_request up to its first session call: a method that is none of GET,
\* POST, DELETE raises ValueError inside the try, which no except clause takes
Enter_make_request(method) ==
    IF method \in SupportedMethods
    THEN [IdleRq EXCEPT !.pc = "send", !.method = method, !.sends = 1]
    ELSE [IdleRq EXCEPT !.pc = "done", !.method = method, !.cause = "ValueError",
                        !.result = Raised("ValueError")]

\* the tokens.get(...) of a key of the token response
Get(value, default) == IF value = Absent THEN default ELSE value

\* (mutant) the refresh token is taken from the token response in any case
UpdateTokens_AlwaysReplacesRefreshToken(client, tokens) ==
    LET access_token == Get(tokens.access_token, None)
    IN  [client EXCEPT
            !.access_token = access_token,
            !.refresh_token = Get(tokens.refresh_token, None),
            !.Authorization = Bearer(access_token)]

\* _refresh_access_token, lines 216-225: the token response taken over
UpdateTokens(client, tokens) ==
    LET access_token == Get(tokens.access_token, None)
    IN  [client EXCEPT
            !.access_token = access_token,
            !.refresh_token = IF tokens.refresh_token # Absent
                              THEN tokens.refresh_token ELSE @,
            !.Authorization = Bearer(access_token)]

\* _save_tokens_to_env: the same once more, with the current values as defaults
_save_tokens_to_env(client, tokens) ==
    LET access_token == Get(tokens.access_token, client.access_token)
    IN  [client EXCEPT
            !.access_token = access_token,
            !.refresh_token = IF tokens.refresh_token # Absent
                              THEN Get(tokens.refresh_token, @) ELSE @,
            !.Authorization = Bearer(access_token)]

\* _refresh_access_token gives up before any request without a refresh token,
\* a client id or a client secret
CanRefresh(client) ==
    /\ Truthy(client.refresh_token)
    /\ Truthy(client.client_id) /\ Truthy(client.client_secret)

\* _refresh_access_token, the try block: True when the POST raised nothing
\* (requests.post raises on a failure below HTTP, raise_for_status on 4xx/5xx)
TokenReplyOk(reply) ==
    reply.kind = "response" /\ ~raise_for_status(reply)

\* _make_request after the refresh: the request again if it succeeded, else
\* on to raise_for_status with the 401 response
AfterRefresh(r, ok) ==
    IF ok
    THEN [r EXCEPT !.pc = "resend", !.refreshed = "true", !.sends = @ + 1,
                   !.tries = 0, !.retried_on = NotRetried]
    ELSE [r EXCEPT !.pc = "done", !.refreshed = "false", !.cause = "response",
                   !.result = Finish(r.response)]

\* (mutant) every 401 goes to the refresh, the one to the re-sent request too
AfterResponse_RefreshAgain(r, response) ==
    IF response.status = 401
    THEN [r EXCEPT !.pc = "refresh", !.response = response,
                   !.first = IF r.pc = "send" THEN response ELSE @,
                   !.refresh_calls = @ + 1]
    ELSE [r EXCEPT !.pc = "done", !.response = response,
                   !.first = IF r.pc = "send" THEN response ELSE @,
                   !.cause = "response", !.result = Finish(response)]

\* _make_request after a session call that returned `response`: a 401 to the
\* first call goes to the refresh, anything else to raise_for_status
AfterResponse(r, response) ==
    IF r.pc = "send" /\ response.status = 401
    THEN [r EXCEPT !.pc = "refresh", !.response = response, !.first = response,
                   !.refresh_calls = @ + 1]
    ELSE [r EXCEPT !.pc = "done", !.response = response,
                   !.first = IF r.pc = "send" THEN response ELSE @,
                   !.cause = "response", !.result = Finish(response)]

\* one exchange of a session call of _make_request
AfterExchange(r, reply) ==
    LET outcome == AdapterOutcome(r.tries, reply)
    IN  CASE outcome = "retry" ->
                [r EXCEPT !.tries = @ + 1,
                          !.retried_on = [kind |-> reply.kind, status |-> reply.status]]
          [] outcome = "response" ->
                AfterResponse([r EXCEPT !.retried_on = NotRetried],
                              [status |-> reply.status, body |-> reply.body])
          [] OTHER ->
                [r EXCEPT !.pc = "done", !.cause = outcome,
                          !.retried_on = NotRetried,
                          !.result = HandleRequestException(outcome)]

\* _make_request, lines 285-292: session.get / post / delete
SessionRequest ==
    /\ rq.pc = "send"
    /\ \E reply \in RawReplies :
          rq' = [AfterExchange(rq, reply) EXCEPT
                    !.headers = _client_instance.Authorization]
    /\ net' = TRUE
    /\ UNCHANGED <<env, _client_instance, tool, created_tasks, failed_tasks,
                   validation_errors, calls>>
    /\ UNCHANGED classify_vars

\* _make_request, lines 299-306 after the refresh: the request sent again
SessionRetry ==
    /\ rq.pc = "resend"
    /\ \E reply \in RawReplies :
          rq' = [AfterExchange(rq, reply) EXCEPT
                    !.headers = _client_instance.Authorization]
    /\ net' = TRUE
    /\ UNCHANGED <<env, _client_instance, tool, created_tasks, failed_tasks,
                   validation_errors, calls>>
    /\ UNCHANGED classify_vars

\* _refresh_access_token, called by _make_request on the 401
_refresh_access_token ==
    /\ rq.pc = "refresh"
    /\ IF ~CanRefresh(_client_instance)
       THEN /\ rq' = AfterRefresh(rq, FALSE)
            /\ UNCHANGED <<_client_instance, net>>
       ELSE \E reply \in TokenReplies :
            /\ net' = TRUE
            /\ _client_instance' =
                  IF TokenReplyOk(reply)
                  THEN _save_tokens_to_env(UpdateTokens(_client_instance, reply), reply)
                  ELSE _client_instance
            /\ rq' = AfterRefresh(
                        [rq EXCEPT !.token_posts = @ + 1,
                                   !.tokens = IF TokenReplyOk(reply)
                                              THEN [access_token |-> reply.access_token,
                                                    refresh_token |-> reply.refresh_token]
                                              ELSE @],
                        TokenReplyOk(reply))
    /\ UNCHANGED <<env, tool, created_tasks, failed_tasks, validation_errors, calls>>
    /\ UNCHANGED classify_vars

-----------------------------------------------------------------------------
(* utils/errors.py *)

\* The classes of the exceptions a wrapped function raises: the four of
\* utils/errors.py (each derives from Exception), ValueError and a class
\* derived from it, two other classes derived from Exception, and two that
\* derive from BaseException only (asyncio.CancelledError of a cancelled
\* coroutine, KeyboardInterrupt)
ExceptionClasses ==
    {"TickTickAuthenticationError", "TickTickRateLimitError", "TickTickAPIError",
     "TickTickNetworkError", "ValueError", "UnicodeDecodeError", "RuntimeError",
     "KeyError", "CancelledError", "KeyboardInterrupt"}

\* isinstance(e, cls) for an exception e of class `exception`
isinstance(exception, cls) ==
    \/ exception = cls
    \/ cls = "ValueError" /\ exception = "UnicodeDecodeError"
    \/ cls = "Exception" /\ exception \notin {"CancelledError", "KeyboardInterrupt"}
    \/ cls = "BaseException"

\* (mutant) the clause `except ValueError` left out
handle_mcp_errors_NoValueError(exception) ==
    IF isinstance(exception, "TickTickAuthenticationError") THEN "Authentication Error"
    ELSE IF isinstance(exception, "TickTickRateLimitError") THEN "Rate Limit Exceeded"
    ELSE IF isinstance(exception, "TickTickAPIError") THEN "TickTick API Error"
    ELSE IF isinstance(exception, "TickTickNetworkError") THEN "Network Error"
    ELSE IF isinstance(exception, "Exception") THEN "Unexpected Error"
    ELSE "raised"

\* handle_mcp_errors: the message a raised exception is turned into by the
\* first except clause that takes it; an exception that no clause takes
\* leaves the wrapper ("raised")
handle_mcp_errors(exception) ==
    IF isinstance(exception, "TickTickAuthenticationError") THEN "Authentication Error"
    ELSE IF isinstance(exception, "TickTickRateLimitError") THEN "Rate Limit Exceeded"
    ELSE IF isinstance(exception, "TickTickAPIError") THEN "TickTick API Error"
    ELSE IF isinstance(exception, "TickTickNetworkError") THEN "Network Error"
    ELSE IF isinstance(exception, "ValueError") THEN "Validation Error"
    ELSE IF isinstance(exception, "Exception") THEN "Unexpected Error"
    ELSE "raised"

\* handle_mcp_errors, line 71: `... if e.retry_after else ""`
retry_msg(retry_after) ==
    IF retry_after = NoneInt \/ retry_after = 0 THEN ""
    ELSE " Please retry after " \o ToString(retry_after) \o " seconds."

\* parse_error_response: the message of an error dict
parse_error_response(result) ==
    CASE result.type = "auth" -> "Authentication Error"
      [] result.type = "permission" -> "Permission Denied"
      [] result.type = "not_found" -> "Resource Not Found"
      [] result.type = "rate_limit" -> "Rate Limit Exceeded"
      [] result.type = "network" -> "Network Error"
      [] result.type = "server_error" -> "Server Error"
      [] OTHER -> "API Error"

-----------------------------------------------------------------------------
(* client_manager.py *)

IdleTool ==
    [name |-> "none", pc |-> "idle", arg |-> <<>>, i |-> 0, ret |-> "",
     exception |-> "", report |-> <<>>]

\* a tool starts when none runs
Begin ==
    /\ tool.pc = "idle"
    /\ rq.pc = "idle"
    /\ UNCHANGED <<created_tasks, failed_tasks, calls, net>>

\* the wrapper returns the tool's message to the host; the tool's locals and
\* the histories of its run are gone
Respond ==
    /\ tool.pc = "done"
    /\ tool' = IdleTool
    /\ created_tasks' = <<>>
    /\ failed_tasks' = <<>>
    /\ validation_errors' = <<>>
    /\ calls' = <<>>
    /\ net' = FALSE
    /\ UNCHANGED <<env, _client_instance, rq>>
    /\ UNCHANGED classify_vars

\* history: a client call of the running tool, and how it ended
Call(i) == [index |-> i, outcome |-> "pending"]
Ended(history, outcome) ==
    [history EXCEPT ![Len(history)].outcome = outcome]

\* the tools are wrapped by handle_mcp_errors; get_client and the client's
\* methods are not
Wrapped(name) ==
    name \notin {"get_client", "initialize_client", "reset_client", "_make_request"}

\* an exception leaves the running tool
Raise(t, exception) ==
    [t EXCEPT !.pc = "done", !.exception = exception,
              !.ret = IF Wrapped(t.name) THEN handle_mcp_errors(exception)
                      ELSE IF t.name = "initialize_client" THEN "False"
                      ELSE "raised"]

\* get_client, line 74: the words looked for in the error message
MentionsAuth(error_msg) ==
    error_msg \in {"401 Client Error: Unauthorized for url",
                   "Authentication failed. Token expired or invalid."}

\* (mutant) the cached instance is not looked at: every call builds a client
get_client_AlwaysBuilds ==
    /\ tool.pc = "get_client"
    /\ IF env.TICKTICK_ACCESS_TOKEN = None THEN
            /\ tool' = Raise(tool, "TickTickAuthenticationError")
            /\ UNCHANGED <<_client_instance, rq>>
       ELSE IF ~Truthy(env.TICKTICK_ACCESS_TOKEN) THEN
            /\ tool' = Raise(tool, "TickTickAuthenticationError")
            /\ UNCHANGED <<_client_instance, rq>>
       ELSE
            /\ _client_instance' = TickTickClient
            /\ rq' = Enter_make_request("GET")
            /\ tool' = [tool EXCEPT !.pc = "check"]
    /\ UNCHANGED <<env, created_tasks, failed_tasks, validation_errors, calls, net>>
    /\ UNCHANGED classify_vars

\* get_client, lines 46-67: the cached instance, or a new one and the
\* connectivity check
get_client ==
    /\ tool.pc = "get_client"
    /\ IF _client_instance.set THEN
            /\ tool' = [tool EXCEPT !.pc = "body"]
            /\ UNCHANGED <<_client_instance, rq>>
       ELSE IF env.TICKTICK_ACCESS_TOKEN = None THEN
            /\ tool' = Raise(tool, "TickTickAuthenticationError")
            /\ UNCHANGED <<_client_instance, rq>>
       ELSE IF ~Truthy(env.TICKTICK_ACCESS_TOKEN) THEN
            \* TickTickClient() raises ValueError
            /\ tool' = Raise(tool, "TickTickAuthenticationError")
            /\ UNCHANGED <<_client_instance, rq>>
       ELSE
            /\ _client_instance' = TickTickClient
            /\ rq' = Enter_make_request("GET")
            /\ tool' = [tool EXCEPT !.pc = "check"]
    /\ UNCHANGED <<env, created_tasks, failed_tasks, validation_errors, calls, net>>
    /\ UNCHANGED classify_vars

\* (mutant) the instance is kept when the connectivity check fails
get_client_connected_KeepsInstance ==
    /\ tool.pc = "check"
    /\ rq.pc = "done"
    /\ rq' = IdleRq
    /\ IF rq.result.kind = "failure" THEN
            /\ _client_instance' = _client_instance
            /\ tool' = Raise(tool, IF MentionsAuth(rq.result.error)
                                   THEN "TickTickAuthenticationError"
                                   ELSE "TickTickAPIError")
       ELSE
            /\ tool' = [tool EXCEPT !.pc = "body"]
            /\ UNCHANGED _client_instance
    /\ UNCHANGED <<env, created_tasks, failed_tasks, validation_errors, calls, net>>
    /\ UNCHANGED classify_vars

\* get_client, lines 68-82: the result of get_projects
get_client_connected ==
    /\ tool.pc = "check"
    /\ rq.pc = "done"
    /\ rq' = IdleRq
    /\ IF rq.result.kind = "failure" THEN
            /\ _client_instance' = NoClient
            /\ tool' = Raise(tool, IF MentionsAuth(rq.result.error)
                                   THEN "TickTickAuthenticationError"
                                   ELSE "TickTickAPIError")
       ELSE
            /\ tool' = [tool EXCEPT !.pc = "body"]
            /\ UNCHANGED _client_instance
    /\ UNCHANGED <<env, created_tasks, failed_tasks, validation_errors, calls, net>>
    /\ UNCHANGED classify_vars

\* get_client called on its own (server startup calls it through
\* initialize_client; the first tool of a process calls it lazily)
Call_get_client ==
    /\ Begin
    /\ \E name \in {"get_client", "initialize_client"} :
          tool' = [IdleTool EXCEPT !.name = name, !.pc = "get_client"]
    /\ UNCHANGED <<env, _client_instance, rq, validation_errors>>
    /\ UNCHANGED classify_vars

\* reset_client: with an instance cached it calls _client_instance.close();
\* TickTickClient defines no close, so the call raises AttributeError before
\* the instance is dropped.  reset_client is not wrapped.
reset_client ==
    /\ Begin
    /\ tool' = IF _client_instance.set
               THEN Raise([IdleTool EXCEPT !.name = "reset_client"], "AttributeError")
               ELSE [IdleTool EXCEPT !.name = "reset_client", !.pc = "done",
                                     !.ret = "None"]
    /\ UNCHANGED <<env, _client_instance, rq, validation_errors>>
    /\ UNCHANGED classify_vars

Return_get_client ==
    /\ tool.pc = "body"
    /\ tool.name \in {"get_client", "initialize_client"}
    /\ tool' = [tool EXCEPT !.pc = "done",
                            !.ret = IF tool.name = "get_client" THEN "client" ELSE "True"]
    /\ UNCHANGED <<env, _client_instance, rq, created_tasks, failed_tasks,
                   validation_errors, calls, net>>
    /\ UNCHANGED classify_vars

-----------------------------------------------------------------------------
(* A client method that only calls the transport (get_projects, get_task,  *)
(* complete_task, delete_task, ...), and _make_request called directly     *)

Call_make_request ==
    /\ Begin
    /\ _client_instance.set
    /\ \E method \in Methods :
          /\ rq' = Enter_make_request(method)
          /\ tool' = [IdleTool EXCEPT !.name = "_make_request", !.pc = "call",
                                      !.arg = method]
    /\ UNCHANGED <<env, _client_instance, validation_errors>>
    /\ UNCHANGED classify_vars

Return_make_request ==
    /\ tool.name = "_make_request"
    /\ tool.pc = "call"
    /\ rq.pc = "done"
    /\ rq' = IdleRq
    /\ tool' = IF rq.result.kind = "raised"
               THEN Raise(tool, rq.result.type)
               ELSE [tool EXCEPT !.pc = "done", !.ret = rq.result.kind]
    /\ UNCHANGED <<env, _client_instance, created_tasks, failed_tasks,
                   validation_errors, calls, net>>
    /\ UNCHANGED classify_vars


\* What a function under handle_mcp_errors does: it returns a result, or
\* raises an exception (a TickTickRateLimitError with its retry_after)
FuncOutcomes ==
    {[raises |-> "", result |-> r, retry_after |-> NoneInt] :
         r \in {"Success", "", "Validation Error"}}
    \cup {[raises |-> e, result |-> "", retry_after |-> NoneInt] :
              e \in ExceptionClasses}
    \cup {[raises |-> "TickTickRateLimitError", result |-> "", retry_after |-> n] :
              n \in {0, 60, 120}}

\* handle_mcp_errors.wrapper around a function
wrapper ==
    /\ Begin
    /\ \E outcome \in FuncOutcomes :
          tool' = [IdleTool EXCEPT
                      !.name = "func", !.pc = "done", !.arg = <<outcome>>,
                      !.exception = outcome.raises,
                      !.ret = IF outcome.raises = "" THEN outcome.result
                              ELSE IF outcome.raises = "TickTickRateLimitError"
                              THEN handle_mcp_errors(outcome.raises)
                                   \o retry_msg(outcome.retry_after)
                              ELSE handle_mcp_errors(outcome.raises)]
    /\ UNCHANGED <<env, _client_instance, rq, validation_errors>>
    /\ UNCHANGED classify_vars

-----------------------------------------------------------------------------
(* TaskValidator *)

MAX_TITLE_LENGTH == 500
MAX_CONTENT_LENGTH == 10000
MAX_PROJECT_NAME_LENGTH == 200
VALID_PRIORITIES == {0, 1, 3, 5}

\* The date strings handed to the tools
DateStrs ==
    {None, "2025-01-15", "2025-01-15T10:30:00", "2025-01-15T10:30:00Z",
     "2025-01-15T10:30:00+00:00", "invalid-date", "2025-13-01"}

\* date_str.endswith('Z') and date_str.replace("Z", "+00:00")
EndsWithZ(date_str) == date_str = "2025-01-15T10:30:00Z"
ReplaceZ(date_str) ==
    IF date_str = "2025-01-15T10:30:00Z" THEN "2025-01-15T10:30:00+00:00"
    ELSE date_str

\* datetime.fromisoformat(date_str) returns (TRUE) or raises ValueError (FALSE);
\* a trailing Z is read only from Python 3.11 on, and no caller passes one
fromisoformat(date_str) ==
    date_str \in {"2025-01-15", "2025-01-15T10:30:00", "2025-01-15T10:30:00+00:00"}

\* Each validator: "" when it returns, the ValueError's message when it raises
validate_task_title(title) ==
    IF Falsy(title) \/ title.strip = 0 THEN "Task title cannot be empty"
    ELSE IF title.len > MAX_TITLE_LENGTH THEN "Task title must be 500 characters or less"
    ELSE ""

validate_project_name(name) ==
    IF Falsy(name) \/ name.strip = 0 THEN "Project name cannot be empty"
    ELSE IF name.len > MAX_PROJECT_NAME_LENGTH
         THEN "Project name must be 200 characters or less"
    ELSE ""

validate_content(content) ==
    IF ~Falsy(content) /\ content.len > MAX_CONTENT_LENGTH
    THEN "Content must be 10000 characters or less"
    ELSE ""

validate_priority(priority) ==
    IF priority \notin VALID_PRIORITIES THEN "Priority must be one of (0, 1, 3, 5)"
    ELSE ""

validate_date(date_str) ==
    IF date_str = None \/ date_str = "" THEN ""
    ELSE IF EndsWithZ(date_str)
         THEN IF fromisoformat(ReplaceZ(date_str)) THEN "" ELSE "must be in ISO format"
    ELSE IF fromisoformat(date_str) THEN "" ELSE "must be in ISO format"

\* the first message of a sequence of checks that is not "", as the first
\* validator that raises ends the method
RECURSIVE FirstError(_)
FirstError(checks) ==
    IF checks = <<>> THEN ""
    ELSE IF Head(checks) # "" THEN Head(checks)
    ELSE FirstError(Tail(checks))

\* TickTickClient.create_task, lines 481-486
create_task_validation(title, content, priority, start_date, due_date) ==
    FirstError(<<validate_task_title(title), validate_content(content),
                 validate_priority(priority), validate_date(start_date),
                 validate_date(due_date)>>)

-----------------------------------------------------------------------------
(* tools/tasks.py: batch_create_tasks_tool *)

TaskData(title, project_id, priority, due_date) ==
    [title |-> title, project_id |-> project_id, content |-> NoneStr,
     priority |-> priority, start_date |-> None, due_date |-> due_date]

\* The task specifications a batch is made of
TaskSpecs ==
    {TaskData(Str(1, 1), "p1", AbsentInt, None),
     TaskData(Str(2, 2), "p2", 5, "2025-01-15T10:30:00Z"),
     TaskData(Str(3, 0), "p1", 0, None),
     TaskData(NoneStr, "p1", 0, None),
     TaskData(Str(0, 0), "p1", 0, None),
     TaskData(Str(1, 1), "", 1, None),
     TaskData(Str(1, 1), "p1", 2, None),
     TaskData(Str(1, 1), "p1", 3, "invalid-date")}

Batches == UNION {[1..n -> TaskSpecs] : n \in 0..MaxBatch}

\* (mutant) the priority of a task is not checked
_validate_task_data_NoPriority(task_data) ==
    IF Falsy(task_data.title) THEN "title"
    ELSE IF task_data.project_id = Absent \/ task_data.project_id = "" THEN "project_id"
    ELSE IF /\ task_data.due_date \notin {None, ""}
            /\ ~fromisoformat(IF EndsWithZ(task_data.due_date)
                              THEN ReplaceZ(task_data.due_date)
                              ELSE task_data.due_date) THEN "due_date"
    ELSE ""

\* _validate_task_data: "" for None, else which check gave the message
_validate_task_data(task_data) ==
    IF Falsy(task_data.title) THEN "title"
    ELSE IF task_data.project_id = Absent \/ task_data.project_id = "" THEN "project_id"
    ELSE IF /\ task_data.priority \notin {AbsentInt, NoneInt}
            /\ task_data.priority \notin {0, 1, 3, 5} THEN "priority"
    ELSE IF /\ task_data.start_date \notin {None, ""}
            /\ ~fromisoformat(IF EndsWithZ(task_data.start_date)
                              THEN ReplaceZ(task_data.start_date)
                              ELSE task_data.start_date) THEN "start_date"
    ELSE IF /\ task_data.due_date \notin {None, ""}
            /\ ~fromisoformat(IF EndsWithZ(task_data.due_date)
                              THEN ReplaceZ(task_data.due_date)
                              ELSE task_data.due_date) THEN "due_date"
    ELSE ""

\* batch_create_tasks_tool, lines 540-548: the errors of tasks[i..], in order
RECURSIVE ValidateAll(_, _)
ValidateAll(tasks, i) ==
    IF i > Len(tasks) THEN <<>>
    ELSE LET error == _validate_task_data(tasks[i])
         IN  (IF error # "" THEN <<[index |-> i, error |-> error]>> ELSE <<>>)
             \o ValidateAll(tasks, i + 1)

\* batch_create_tasks_tool, lines 533-557: the validation gate
batch_create_tasks_tool ==
    /\ Begin
    /\ \E tasks \in Batches :
          LET errors == ValidateAll(tasks, 1)
          IN  /\ validation_errors' = errors
              /\ tool' =
                    IF tasks = <<>> THEN
                        [IdleTool EXCEPT !.name = "batch_create_tasks_tool",
                                         !.pc = "done", !.ret = "No tasks provided"]
                    ELSE IF errors # <<>> THEN
                        [IdleTool EXCEPT !.name = "batch_create_tasks_tool",
                                         !.arg = tasks, !.pc = "done",
                                         !.ret = "Validation errors found"]
                    ELSE
                        [IdleTool EXCEPT !.name = "batch_create_tasks_tool",
                                         !.arg = tasks, !.pc = "get_client", !.i = 1]
    /\ UNCHANGED <<env, _client_instance, rq>>
    /\ UNCHANGED classify_vars

\* the entry of failed_tasks for an error dict, "Task {i} ('{title}'): ..." :
\* the branch that words it, and the words after the colon, which are fixed
\* words for four types and error_msg for every other type
FailedEntry(i, title, result) ==
    [index |-> i, title |-> title,
     reason |-> IF result.type \in {"auth", "permission", "not_found", "network"}
                THEN result.type ELSE "error_msg",
     message |-> CASE result.type = "auth" -> "Authentication failed (401)"
                   [] result.type = "permission" -> "Permission denied (403)"
                   [] result.type = "not_found" -> "Project not found (404)"
                   [] result.type = "network" -> "Network error"
                   [] OTHER -> result.error]

\* batch_create_tasks_tool, lines 559-577 and 596-597: one round of the loop up
\* to the request of client.create_task; a ValueError of its validation is
\* caught by the loop and recorded
batch_create_task ==
    /\ tool.name = "batch_create_tasks_tool"
    /\ tool.pc = "body"
    /\ tool.i <= Len(tool.arg)
    /\ LET i == tool.i
           task_data == tool.arg[i]
           priority == IF task_data.priority = AbsentInt THEN 0 ELSE task_data.priority
           error == create_task_validation(task_data.title, task_data.content,
                                           priority, task_data.start_date,
                                           task_data.due_date)
       IN  /\ IF error # "" THEN
                 /\ calls' = Append(calls, [index |-> i, outcome |-> "raised"])
                 /\ failed_tasks' = Append(failed_tasks,
                        [index |-> i, title |-> task_data.title,
                         reason |-> "exception", message |-> error])
                 /\ tool' = [tool EXCEPT !.i = i + 1]
                 /\ UNCHANGED rq
              ELSE
                 /\ calls' = Append(calls, Call(i))
                 /\ rq' = Enter_make_request("POST")
                 /\ tool' = [tool EXCEPT !.pc = "call"]
                 /\ UNCHANGED failed_tasks
    /\ UNCHANGED <<env, _client_instance, created_tasks, validation_errors, net>>
    /\ UNCHANGED classify_vars

\* (mutant) the loop is left at the first task whose creation failed
batch_task_result_StopsAtFailure ==
    /\ tool.name = "batch_create_tasks_tool"
    /\ tool.pc = "call"
    /\ rq.pc = "done"
    /\ rq' = IdleRq
    /\ LET i == tool.i
           title == tool.arg[i].title
       IN  IF rq.result.kind = "failure" THEN
               /\ failed_tasks' = Append(failed_tasks, FailedEntry(i, title, rq.result))
               /\ tool' = [tool EXCEPT !.pc = "body", !.i = Len(tool.arg) + 1]
               /\ UNCHANGED created_tasks
           ELSE
               /\ created_tasks' = Append(created_tasks,
                      [index |-> i, title |-> title, result |-> rq.result.payload])
               /\ tool' = [tool EXCEPT !.pc = "body", !.i = @ + 1]
               /\ UNCHANGED failed_tasks
    /\ calls' = Ended(calls, rq.result.kind)
    /\ UNCHANGED <<env, _client_instance, validation_errors, net>>
    /\ UNCHANGED classify_vars

\* (mutant) a network failure is reported and not recorded in failed_tasks
batch_task_result_DropsNetworkFailure ==
    /\ tool.name = "batch_create_tasks_tool"
    /\ tool.pc = "call"
    /\ rq.pc = "done"
    /\ rq' = IdleRq
    /\ LET i == tool.i
           title == tool.arg[i].title
       IN  IF rq.result.kind = "failure" THEN
               /\ failed_tasks' = IF rq.result.type = "network" THEN failed_tasks
                                  ELSE Append(failed_tasks,
                                              FailedEntry(i, title, rq.result))
               /\ UNCHANGED created_tasks
           ELSE
               /\ created_tasks' = Append(created_tasks,
                      [index |-> i, title |-> title, result |-> rq.result.payload])
               /\ UNCHANGED failed_tasks
    /\ calls' = Ended(calls, rq.result.kind)
    /\ tool' = [tool EXCEPT !.pc = "body", !.i = @ + 1]
    /\ UNCHANGED <<env, _client_instance, validation_errors, net>>
    /\ UNCHANGED classify_vars

\* batch_create_tasks_tool, lines 579-594: the result of client.create_task
batch_task_result ==
    /\ tool.name = "batch_create_tasks_tool"
    /\ tool.pc = "call"
    /\ rq.pc = "done"
    /\ rq' = IdleRq
    /\ LET i == tool.i
           title == tool.arg[i].title
       IN  IF rq.result.kind = "failure" THEN
               /\ failed_tasks' = Append(failed_tasks, FailedEntry(i, title, rq.result))
               /\ UNCHANGED created_tasks
           ELSE
               /\ created_tasks' = Append(created_tasks,
                      [index |-> i, title |-> title, result |-> rq.result.payload])
               /\ UNCHANGED failed_tasks
    /\ calls' = Ended(calls, rq.result.kind)
    /\ tool' = [tool EXCEPT !.pc = "body", !.i = @ + 1]
    /\ UNCHANGED <<env, _client_instance, validation_errors, net>>
    /\ UNCHANGED classify_vars

\* batch_create_tasks_tool, lines 599-615: the report
batch_report ==
    /\ tool.name = "batch_create_tasks_tool"
    /\ tool.pc = "body"
    /\ tool.i > Len(tool.arg)
    /\ tool' = [tool EXCEPT !.pc = "done", !.ret = "Batch task creation completed"]
    /\ UNCHANGED <<env, _client_instance, rq, created_tasks, failed_tasks,
                   validation_errors, calls, net>>
    /\ UNCHANGED classify_vars

-----------------------------------------------------------------------------
(* tools/tasks.py, tools/projects.py: the mutating tools *)

TaskArgs(title, content, priority, due_date) ==
    [title |-> title, content |-> content, priority |-> priority,
     start_date |-> None, due_date |-> due_date]

ProjectArgs(name, color, view_mode) ==
    [name |-> name, color |-> color, view_mode |-> view_mode]

\* The arguments the task tools are called with: valid ones, at and inside
\* the limits, and one field at a time outside its constraint
CreateTaskArgs ==
    {TaskArgs(Str(1, 1), NoneStr, 0, None),
     TaskArgs(Str(MAX_TITLE_LENGTH, MAX_TITLE_LENGTH),
              Str(MAX_CONTENT_LENGTH, MAX_CONTENT_LENGTH), 5, "2025-01-15T10:30:00Z"),
     TaskArgs(Str(0, 0), NoneStr, 0, None),
     TaskArgs(Str(3, 0), NoneStr, 0, None),
     TaskArgs(Str(MAX_TITLE_LENGTH + 1, MAX_TITLE_LENGTH + 1), NoneStr, 0, None),
     TaskArgs(Str(1, 1), Str(MAX_CONTENT_LENGTH + 1, MAX_CONTENT_LENGTH + 1), 0, None),
     TaskArgs(Str(1, 1), NoneStr, 2, None),
     TaskArgs(Str(1, 1), NoneStr, 0, "invalid-date")}

\* update_task_tool: every field may also be left out
UpdateTaskArgs ==
    CreateTaskArgs \cup {TaskArgs(NoneStr, NoneStr, NoneInt, None),
                         TaskArgs(NoneStr, Str(1, 1), 3, "2025-01-15")}

\* create_subtask_tool takes no dates
CreateSubtaskArgs == {a \in CreateTaskArgs : a.due_date = None}

CreateProjectArgs ==
    {ProjectArgs(Str(1, 1), "#F18181", "list"),
     ProjectArgs(Str(MAX_PROJECT_NAME_LENGTH, MAX_PROJECT_NAME_LENGTH), "#F18181", "kanban"),
     ProjectArgs(Str(0, 0), "#F18181", "list"),
     ProjectArgs(Str(3, 0), "#F18181", "list"),
     ProjectArgs(Str(MAX_PROJECT_NAME_LENGTH + 1, MAX_PROJECT_NAME_LENGTH + 1),
                 "#F18181", "list"),
     ProjectArgs(Str(1, 1), "#F18181", "grid")}

UpdateProjectArgs ==
    CreateProjectArgs \cup {ProjectArgs(NoneStr, None, None),
                            ProjectArgs(NoneStr, "#F18181", None),
                            ProjectArgs(Str(0, 0), None, None),
                            ProjectArgs(Str(0, 0), "#F18181", None),
                            ProjectArgs(Str(1, 1), None, "grid")}

MutatingTools ==
    {"create_task_tool", "update_task_tool", "create_subtask_tool",
     "create_project_tool", "update_project_tool"}

\* a tool that returns before get_client, or goes on to it
ToolReturns(name, args, ret) ==
    [IdleTool EXCEPT !.name = name, !.arg = args, !.pc = "done", !.ret = ret]
ToolProceeds(name, args) ==
    [IdleTool EXCEPT !.name = name, !.arg = args, !.pc = "get_client"]

\* the tools' date check, lines 211-217 and 261-267: the date is given and
\* datetime.fromisoformat(date_str.replace("Z", "+00:00")) raises ValueError
ToolDateInvalid(date_str) ==
    /\ date_str # None /\ date_str # ""
    /\ ~fromisoformat(ReplaceZ(date_str))

\* create_task_tool, lines 207-219
create_task_tool ==
    /\ Begin
    /\ \E args \in CreateTaskArgs :
          tool' = IF args.priority \notin {0, 1, 3, 5}
                  THEN ToolReturns("create_task_tool", args, "Invalid priority")
                  ELSE IF ToolDateInvalid(args.start_date)
                  THEN ToolReturns("create_task_tool", args, "Invalid start_date format")
                  ELSE IF ToolDateInvalid(args.due_date)
                  THEN ToolReturns("create_task_tool", args, "Invalid due_date format")
                  ELSE ToolProceeds("create_task_tool", args)
    /\ UNCHANGED <<env, _client_instance, rq, validation_errors>>
    /\ UNCHANGED classify_vars

\* update_task_tool, lines 257-269
update_task_tool ==
    /\ Begin
    /\ \E args \in UpdateTaskArgs :
          tool' = IF args.priority # NoneInt /\ args.priority \notin {0, 1, 3, 5}
                  THEN ToolReturns("update_task_tool", args, "Invalid priority")
                  ELSE IF ToolDateInvalid(args.start_date)
                  THEN ToolReturns("update_task_tool", args, "Invalid start_date format")
                  ELSE IF ToolDateInvalid(args.due_date)
                  THEN ToolReturns("update_task_tool", args, "Invalid due_date format")
                  ELSE ToolProceeds("update_task_tool", args)
    /\ UNCHANGED <<env, _client_instance, rq, validation_errors>>
    /\ UNCHANGED classify_vars

\* create_subtask_tool, lines 340-344
create_subtask_tool ==
    /\ Begin
    /\ \E args \in CreateSubtaskArgs :
          tool' = IF args.priority \notin {0, 1, 3, 5}
                  THEN ToolReturns("create_subtask_tool", args, "Invalid priority")
                  ELSE ToolProceeds("create_subtask_tool", args)
    /\ UNCHANGED <<env, _client_instance, rq, validation_errors>>
    /\ UNCHANGED classify_vars

\* create_project_tool, lines 93-97
create_project_tool ==
    /\ Begin
    /\ \E args \in CreateProjectArgs :
          tool' = IF args.view_mode \notin {"list", "kanban", "timeline"}
                  THEN ToolReturns("create_project_tool", args, "Invalid view_mode")
                  ELSE ToolProceeds("create_project_tool", args)
    /\ UNCHANGED <<env, _client_instance, rq, validation_errors>>
    /\ UNCHANGED classify_vars

\* update_project_tool, lines 126-134
update_project_tool ==
    /\ Begin
    /\ \E args \in UpdateProjectArgs :
          tool' = IF /\ args.view_mode # None
                     /\ args.view_mode \notin {"list", "kanban", "timeline"}
                  THEN ToolReturns("update_project_tool", args, "Invalid view_mode")
                  ELSE IF Falsy(args.name) /\ args.color = None /\ args.view_mode = None
                  THEN ToolReturns("update_project_tool", args, "No updates provided")
                  ELSE ToolProceeds("update_project_tool", args)
    /\ UNCHANGED <<env, _client_instance, rq, validation_errors>>
    /\ UNCHANGED classify_vars

\* TickTickClient.update_task, lines 527-536: a field is validated when it
\* is truthy (priority: when it is not None)
update_task_validation(title, content, priority, start_date, due_date) ==
    FirstError(<<IF Falsy(title) THEN "" ELSE validate_task_title(title),
                 IF Falsy(content) THEN "" ELSE validate_content(content),
                 IF priority = NoneInt THEN "" ELSE validate_priority(priority),
                 validate_date(start_date),
                 validate_date(due_date)>>)

\* TickTickClient.create_subtask, lines 584-586
create_subtask_validation(subtask_title, content, priority) ==
    FirstError(<<validate_task_title(subtask_title), validate_content(content),
                 validate_priority(priority)>>)

\* TickTickClient.update_project, lines 438-440
update_project_validation(name) ==
    IF Falsy(name) THEN "" ELSE validate_project_name(name)

\* the validation of the client method a mutating tool calls: "" when the
\* method goes on to _make_request, else the message of its ValueError
ClientValidation(name, args) ==
    CASE name = "create_task_tool" ->
            create_task_validation(args.title, args.content, args.priority,
                                   args.start_date, args.due_date)
      [] name = "update_task_tool" ->
            update_task_validation(args.title, args.content, args.priority,
                                   args.start_date, args.due_date)
      [] name = "create_subtask_tool" ->
            create_subtask_validation(args.title, args.content, args.priority)
      [] name = "create_project_tool" -> validate_project_name(args.name)
      [] name = "update_project_tool" -> update_project_validation(args.name)

\* the client method of a mutating tool, up to its request: the ValueError of
\* a validator leaves the tool through handle_mcp_errors
mutating_client_call ==
    /\ tool.name \in MutatingTools
    /\ tool.pc = "body"
    /\ IF ClientValidation(tool.name, tool.arg) # "" THEN
            /\ tool' = Raise(tool, "ValueError")
            /\ UNCHANGED <<rq, calls>>
       ELSE
            /\ rq' = Enter_make_request("POST")
            /\ calls' = Append(calls, Call(1))
            /\ tool' = [tool EXCEPT !.pc = "call"]
    /\ UNCHANGED <<env, _client_instance, created_tasks, failed_tasks,
                   validation_errors, net>>
    /\ UNCHANGED classify_vars

\* the tool's answer: parse_error_response of an error dict, else the
\* formatted object
mutating_tool_result ==
    /\ tool.name \in MutatingTools
    /\ tool.pc = "call"
    /\ rq.pc = "done"
    /\ rq' = IdleRq
    /\ calls' = Ended(calls, rq.result.kind)
    /\ tool' = [tool EXCEPT !.pc = "done",
                            !.ret = IF rq.result.kind = "failure"
                                    THEN parse_error_response(rq.result)
                                    ELSE "successfully"]
    /\ UNCHANGED <<env, _client_instance, created_tasks, failed_tasks,
                   validation_errors, net>>
    /\ UNCHANGED classify_vars

-----------------------------------------------------------------------------
(* tools/tasks.py: get_all_tasks_tool and _get_project_tasks_by_filter *)

\* the 'closed' key of a project of the list: true, false, or not there
ClosedFlags == {"true", "false", Absent}
ProjectLists == UNION {[1..n -> ClosedFlags] : n \in 0..MaxProjects}

\* (mutant) closed projects are fetched like the others
Skipped_Never(closed) == FALSE
\* `if project.get('closed')`
Skipped(closed) == closed = "true"

\* get_all_tasks_tool, line 364
get_all_tasks_tool ==
    /\ Begin
    /\ tool' = [IdleTool EXCEPT !.name = "get_all_tasks_tool", !.pc = "get_client"]
    /\ UNCHANGED <<env, _client_instance, rq, validation_errors>>
    /\ UNCHANGED classify_vars

\* get_all_tasks_tool, line 365: client.get_projects()
get_projects ==
    /\ tool.name = "get_all_tasks_tool"
    /\ tool.pc = "body"
    /\ rq' = Enter_make_request("GET")
    /\ tool' = [tool EXCEPT !.pc = "projects"]
    /\ UNCHANGED <<env, _client_instance, created_tasks, failed_tasks,
                   validation_errors, calls, net>>
    /\ UNCHANGED classify_vars

\* ensure_list_response: the message for an error dict and for a value that
\* is not a list (the {} of an empty body), "" for a list
ensure_list_response(result) ==
    IF result.kind = "failure" THEN parse_error_response(result)
    ELSE IF result.payload # "json" THEN "Unexpected response format"
    ELSE ""

\* get_all_tasks_tool, lines 367-374, and _get_project_tasks_by_filter, lines
\* 132-136: the project list of the reply; get_client returns the instance
\* that the tool's own get_client has cached
scan_begin ==
    /\ tool.name = "get_all_tasks_tool"
    /\ tool.pc = "projects"
    /\ rq.pc = "done"
    /\ rq' = IdleRq
    /\ IF ensure_list_response(rq.result) # "" THEN
            tool' = [tool EXCEPT !.pc = "done", !.ret = ensure_list_response(rq.result)]
       ELSE \E projects \in ProjectLists :
            tool' = IF projects = <<>>
                    THEN [tool EXCEPT !.pc = "done", !.ret = "No projects found."]
                    ELSE [tool EXCEPT !.pc = "scan", !.arg = projects, !.i = 1]
    /\ UNCHANGED <<env, _client_instance, created_tasks, failed_tasks,
                   validation_errors, calls, net>>
    /\ UNCHANGED classify_vars

\* _get_project_tasks_by_filter, lines 138-143 and 164: one round of the loop
\* up to the request of client.get_project_with_data, or the end of the list
scan_project ==
    /\ tool.name = "get_all_tasks_tool"
    /\ tool.pc = "scan"
    /\ IF tool.i > Len(tool.arg) THEN
            /\ tool' = [tool EXCEPT !.pc = "done", !.ret = "Found projects"]
            /\ UNCHANGED <<rq, calls>>
       ELSE IF Skipped(tool.arg[tool.i]) THEN
            /\ tool' = [tool EXCEPT !.i = @ + 1]
            /\ UNCHANGED <<rq, calls>>
       ELSE
            /\ rq' = Enter_make_request("GET")
            /\ calls' = Append(calls, Call(tool.i))
            /\ tool' = [tool EXCEPT !.pc = "fetch"]
    /\ UNCHANGED <<env, _client_instance, created_tasks, failed_tasks,
                   validation_errors, net>>
    /\ UNCHANGED classify_vars

\* _get_project_tasks_by_filter, lines 146-162: what the report says of
\* project i, "Project {i}: ... With {n} tasks ..." and the n matching tasks
ReportEntry(i, n) == [index |-> i, tasks |-> n]

\* (mutant) the loop is left when the fetch of a project fails
scan_project_data_AbortsOnFailure ==
    /\ tool.name = "get_all_tasks_tool"
    /\ tool.pc = "fetch"
    /\ rq.pc = "done"
    /\ rq' = IdleRq
    /\ calls' = Ended(calls, rq.result.kind)
    /\ \E tasks \in IF rq.result.kind = "success" /\ rq.result.payload = "json"
                    THEN {0, 1} ELSE {0} :
          tool' = IF rq.result.kind = "failure"
                  THEN [tool EXCEPT !.pc = "scan", !.i = Len(tool.arg) + 1,
                                    !.report = Append(@, ReportEntry(tool.i, tasks))]
                  ELSE [tool EXCEPT !.pc = "scan", !.i = @ + 1,
                                    !.report = Append(@, ReportEntry(tool.i, tasks))]
    /\ UNCHANGED <<env, _client_instance, created_tasks, failed_tasks,
                   validation_errors, net>>
    /\ UNCHANGED classify_vars

\* _get_project_tasks_by_filter, lines 144-162: project_data.get('tasks', [])
\* is [] for an error dict and for the {} of an empty body, and the project
\* is then reported with 0 tasks
scan_project_data ==
    /\ tool.name = "get_all_tasks_tool"
    /\ tool.pc = "fetch"
    /\ rq.pc = "done"
    /\ rq' = IdleRq
    /\ calls' = Ended(calls, rq.result.kind)
    /\ \E tasks \in IF rq.result.kind = "success" /\ rq.result.payload = "json"
                    THEN {0, 1} ELSE {0} :
          tool' = [tool EXCEPT !.pc = "scan", !.i = @ + 1,
                               !.report = Append(@, ReportEntry(tool.i, tasks))]
    /\ UNCHANGED <<env, _client_instance, created_tasks, failed_tasks,
                   validation_errors, net>>
    /\ UNCHANGED classify_vars

-----------------------------------------------------------------------------
(* tools/tasks.py, tools/gtd.py: the task filters *)

\* Time is counted in hours.  An aware datetime is its wall-clock day and
\* hour and its UTC offset, as strptime's %z keeps it.
datetime(day, hour, off) == [day |-> day, hour |-> hour, off |-> off]

\* the hours of the day and the UTC offsets (-0500, +0000, +0900) that occur
Hours == {0, 3, 8, 12, 23}
Offsets == {-5, 0, 9}

\* task['dueDate'] as the service (or a test) writes it: a string of the
\* format "%Y-%m-%dT%H:%M:%S.%f%z" ("ok"), or no key, None, "", a string that
\* is no date ("garbled"), an ISO date without the fraction the format asks
\* for ("no_fraction"), or a value that is not a string ("number")
DueDate(kind, day, hour, off) == [kind |-> kind, day |-> day, hour |-> hour, off |-> off]
DueDates ==
    {DueDate(kind, 0, 0, 0) :
        kind \in {"absent", "null", "empty", "garbled", "no_fraction", "number"}}
    \cup {DueDate("ok", day, hour, off) :
            day \in 0..MaxDay, hour \in Hours, off \in Offsets}

\* a task of a fetched project, as far as the filters read it
Tasks == [priority : {AbsentInt, 0, 1, 3, 5}, dueDate : DueDates]

\* the clock: datetime.now(timezone.utc)
Clocks == {datetime(day, hour, 0) : day \in {1, 2}, hour \in Hours}

\* `not due_date`
NoDueDate(due_date) == due_date.kind \in {"absent", "null", "empty"}

\* datetime.strptime(due_date, "%Y-%m-%dT%H:%M:%S.%f%z"): the aware datetime,
\* or the exception raised
strptime(due_date) ==
    CASE due_date.kind = "ok" ->
            [exception |-> "", dt |-> datetime(due_date.day, due_date.hour, due_date.off)]
      [] due_date.kind = "number" ->
            [exception |-> "TypeError", dt |-> datetime(0, 0, 0)]
      [] OTHER ->
            [exception |-> "ValueError", dt |-> datetime(0, 0, 0)]

\* datetime.date(): the wall-clock day, whatever the offset
date(dt) == dt.day
\* the instant an aware datetime stands for, in hours of UTC: what the
\* comparison of two aware datetimes compares
Instant(dt) == (dt.day * 24 + dt.hour) - dt.off
\* dt + timedelta(days=days)
PlusDays(dt, days) == [dt EXCEPT !.day = @ + days]

\* what a call of a filter did
Returned(value) == [value |-> value, exception |-> ""]
Propagated(exception) == [value |-> FALSE, exception |-> exception]
NotFiltered ==
    [filter |-> "none", days |-> 0, value |-> FALSE, exception |-> "",
     clock |-> datetime(0, 0, 0)]

\* (mutant) only ValueError is caught
TryExcept_ValueErrorOnly(parsed, value) ==
    IF parsed.exception = "ValueError" THEN Returned(FALSE)
    ELSE IF parsed.exception # "" THEN Propagated(parsed.exception)
    ELSE Returned(value)

\* try: ... return value / except (ValueError, TypeError): return False
TryExcept(parsed, value) ==
    IF parsed.exception \in {"ValueError", "TypeError"} THEN Returned(FALSE)
    ELSE IF parsed.exception # "" THEN Propagated(parsed.exception)
    ELSE Returned(value)

\* _is_task_due_today, lines 18-29
_is_task_due_today(t, clock) ==
    IF NoDueDate(t.dueDate) THEN Returned(FALSE)
    ELSE LET parsed == strptime(t.dueDate)
         IN  TryExcept(parsed, date(parsed.dt) = date(clock))

\* (mutant) a task due at this very instant is overdue
_is_task_overdue_OrNow(t, clock) ==
    IF NoDueDate(t.dueDate) THEN Returned(FALSE)
    ELSE LET parsed == strptime(t.dueDate)
         IN  TryExcept(parsed, Instant(parsed.dt) <= Instant(clock))

\* _is_task_overdue, lines 32-42
_is_task_overdue(t, clock) ==
    IF NoDueDate(t.dueDate) THEN Returned(FALSE)
    ELSE LET parsed == strptime(t.dueDate)
         IN  TryExcept(parsed, Instant(parsed.dt) < Instant(clock))

\* (mutant) due in X days or later
_is_task_due_in_days_OrLater(t, days, clock) ==
    IF NoDueDate(t.dueDate) THEN Returned(FALSE)
    ELSE LET parsed == strptime(t.dueDate)
         IN  TryExcept(parsed, date(parsed.dt) >= date(PlusDays(clock, days)))

\* _is_task_due_in_days, lines 45-56
_is_task_due_in_days(t, days, clock) ==
    IF NoDueDate(t.dueDate) THEN Returned(FALSE)
    ELSE LET parsed == strptime(t.dueDate)
         IN  TryExcept(parsed, date(parsed.dt) = date(PlusDays(clock, days)))

\* get_tasks_due_this_week_tool.week_filter, lines 479-490
week_filter(t, clock) ==
    IF NoDueDate(t.dueDate) THEN Returned(FALSE)
    ELSE LET parsed == strptime(t.dueDate)
             today == date(clock)
             week_from_today == date(PlusDays(clock, 7))
         IN  TryExcept(parsed, today <= date(parsed.dt)
                               /\ date(parsed.dt) <= week_from_today)

\* task.get('priority', 0)
PriorityOf(t) == IF t.priority = AbsentInt THEN 0 ELSE t.priority

\* the clock does not run backwards: what a later datetime.now() may give
LaterClocks(clock) == {later \in Clocks : Instant(later) >= Instant(clock)}

\* get_engaged_tasks_tool.engaged_filter, lines 54-58: the three tests are
\* made first, then or-ed; _is_task_overdue reads the clock, and then
\* _is_task_due_today reads it again
engaged_filter(t, clock, later) ==
    LET is_high_priority == PriorityOf(t) = 5
        is_overdue == _is_task_overdue(t, clock)
        is_today == _is_task_due_today(t, later)
    IN  IF is_overdue.exception # "" THEN is_overdue
        ELSE IF is_today.exception # "" THEN is_today
        ELSE Returned(is_high_priority \/ is_overdue.value \/ is_today.value)

\* get_next_tasks_tool.next_filter, lines 79-82
next_filter(t, clock) ==
    LET is_medium_priority == PriorityOf(t) = 3
        is_due_tomorrow == _is_task_due_in_days(t, 1, clock)
    IN  IF is_due_tomorrow.exception # "" THEN is_due_tomorrow
        ELSE Returned(is_medium_priority \/ is_due_tomorrow.value)

\* the days asked of get_tasks_due_in_days_tool (days < 0 is refused, line 452)
DaysAsked == {0, 1, 3}

\* _get_project_tasks_by_filter, line 153: filter_func(task), for the filter
\* of each tool
\* with the clock as the call of the filter found it
Filtered(filter, days, result) ==
    [filter |-> filter, days |-> days, value |-> result.value,
     exception |-> result.exception, clock |-> now]

Unfiltered == filtered = NotFiltered

filter_engaged ==
    /\ Unfiltered
    /\ \E later \in LaterClocks(now) :
          /\ filtered' = Filtered("engaged", 0, engaged_filter(task, now, later))
          /\ now' = later
    /\ UNCHANGED task
    /\ UNCHANGED tools_vars

filter_next ==
    /\ Unfiltered
    /\ filtered' = Filtered("next", 0, next_filter(task, now))
    /\ UNCHANGED <<now, task>>
    /\ UNCHANGED tools_vars

filter_due_today ==
    /\ Unfiltered
    /\ filtered' = Filtered("due_today", 0, _is_task_due_today(task, now))
    /\ UNCHANGED <<now, task>>
    /\ UNCHANGED tools_vars

filter_overdue ==
    /\ Unfiltered
    /\ filtered' = Filtered("overdue", 0, _is_task_overdue(task, now))
    /\ UNCHANGED <<now, task>>
    /\ UNCHANGED tools_vars

filter_due_in_days ==
    /\ Unfiltered
    /\ \E days \in DaysAsked :
          filtered' = Filtered("due_in_days", days, _is_task_due_in_days(task, days, now))
    /\ UNCHANGED <<now, task>>
    /\ UNCHANGED tools_vars

filter_due_this_week ==
    /\ Unfiltered
    /\ filtered' = Filtered("due_this_week", 0, week_filter(task, now))
    /\ UNCHANGED <<now, task>>
    /\ UNCHANGED tools_vars

-----------------------------------------------------------------------------

Environments ==
    [TICKTICK_CLIENT_ID : {"id"},
     TICKTICK_CLIENT_SECRET : {None, "secret"},
     TICKTICK_ACCESS_TOKEN : {None, "", "a0"},
     TICKTICK_REFRESH_TOKEN : {None, "r0"}]

Init ==
    /\ env \in Environments
    /\ _client_instance = NoClient
    /\ rq = IdleRq
    /\ tool = IdleTool
    /\ created_tasks = <<>>
    /\ failed_tasks = <<>>
    /\ validation_errors = <<>>
    /\ calls = <<>>
    /\ net = FALSE
    /\ now = datetime(1, 0, 0)
    /\ task = [priority |-> 0, dueDate |-> DueDate("absent", 0, 0, 0)]
    /\ filtered = NotFiltered

\* the tools and what they call; the task filters are pure and are followed
\* apart, in SpecClassify
Next ==
    \/ SessionRequest
    \/ SessionRetry
    \/ _refresh_access_token
    \/ get_client
    \/ get_client_connected
    \/ Call_get_client
    \/ Return_get_client
    \/ Call_make_request
    \/ Return_make_request
    \/ Respond
    \/ batch_create_tasks_tool
    \/ batch_create_task
    \/ batch_task_result
    \/ batch_report
    \/ create_task_tool
    \/ update_task_tool
    \/ create_subtask_tool
    \/ create_project_tool
    \/ update_project_tool
    \/ mutating_client_call
    \/ mutating_tool_result
    \/ get_all_tasks_tool
    \/ get_projects
    \/ scan_begin
    \/ scan_project
    \/ scan_project_data
    \/ wrapper
    \/ reset_client

Spec == Init /\ [][Next]_vars

\* The transport alone: get_client and direct calls of _make_request.  A
\* request that was sent is answered (by a response or by a failure below
\* HTTP), and the client goes on with what it has begun.
NextTransport ==
    \/ SessionRequest
    \/ SessionRetry
    \/ _refresh_access_token
    \/ get_client
    \/ get_client_connected
    \/ Call_get_client
    \/ Return_get_client
    \/ Call_make_request
    \/ Return_make_request
    \/ Respond

SpecTransport ==
    /\ Init /\ [][NextTransport]_vars
    /\ WF_vars(SessionRequest) /\ WF_vars(SessionRetry)
    /\ WF_vars(_refresh_access_token)

\* The task filters: a task of a fetched project and the clock are whatever
\* they may be, and one filter is applied to the task
InitClassify ==
    /\ env = [TICKTICK_CLIENT_ID |-> "id", TICKTICK_CLIENT_SECRET |-> "secret",
              TICKTICK_ACCESS_TOKEN |-> "a0", TICKTICK_REFRESH_TOKEN |-> "r0"]
    /\ _client_instance = NoClient
    /\ rq = IdleRq
    /\ tool = IdleTool
    /\ created_tasks = <<>>
    /\ failed_tasks = <<>>
    /\ validation_errors = <<>>
    /\ calls = <<>>
    /\ net = FALSE
    /\ now \in Clocks
    /\ task \in Tasks
    /\ filtered = NotFiltered

NextClassify ==
    \/ filter_engaged
    \/ filter_next
    \/ filter_due_today
    \/ filter_overdue
    \/ filter_due_in_days
    \/ filter_due_this_week

SpecClassify == InitClassify /\ [][NextClassify]_vars

-----------------------------------------------------------------------------
(* The transport: one call of _make_request *)

\* the payload _make_request returns for a 2xx response
PayloadOf(response) == IF response.body = "" THEN "{}" ELSE response.body

\* C1: during one transport call the client makes at most one credential
\* refresh (one call of _refresh_access_token, at most one POST to the token
\* endpoint) and at most two session calls; the second session call is made
\* only after a 401 to the first and a refresh that succeeded, and a 401 to the
\* second leads to no further refresh.
C1_OneRefreshOneResend ==
    /\ rq.refresh_calls <= 1
    /\ rq.token_posts <= rq.refresh_calls
    /\ rq.sends <= 2
    /\ rq.sends = 2 => rq.refreshed = "true" /\ rq.first.status = 401
    /\ rq.refresh_calls = 1 => rq.first.status = 401
    /\ rq.pc = "resend" => rq.refreshed = "true"

\* the re-sent request was answered 401 and the call ended without a refresh
C1_Witness ==
    /\ rq.pc = "done" /\ rq.sends = 2
    /\ rq.response.status = 401 /\ rq.cause = "response"
    /\ rq.refresh_calls = 1

\* C2: first attempt 401, refresh succeeded, re-sent request answered 200: the
\* call returns a success carrying the payload of the second response, after
\* exactly one refresh call and exactly two session calls.
C2_RefreshThenSuccess ==
    (/\ rq.pc = "done" /\ rq.first.status = 401 /\ rq.refreshed = "true"
     /\ rq.cause = "response" /\ rq.response.status = 200)
    => /\ rq.result = Success(PayloadOf(rq.response))
       /\ rq.refresh_calls = 1 /\ rq.token_posts = 1
       /\ rq.sends = 2

C2_Witness ==
    /\ rq.pc = "done" /\ rq.first.status = 401 /\ rq.refreshed = "true"
    /\ rq.cause = "response" /\ rq.response = [status |-> 200, body |-> "json"]
    /\ rq.result.kind = "success"

\* C3: a 401 whose refresh fails (no refresh token, no client secret, or the
\* token endpoint fails) is not re-sent, and the call returns a failure of
\* kind authentication carrying the 401.
C3_RefreshFailedIsAuthFailure ==
    (rq.pc = "done" /\ rq.refreshed = "false")
    => /\ rq.sends = 1
       /\ rq.result.kind = "failure"
       /\ rq.result.type = "auth"
       /\ rq.result.status_code = 401

\* C4: the failure of a transport call is classed by its cause: a final 401
\* is auth, 403 permission, 404 not_found, 5xx server_error with the status
\* code, a connection failure network, a timeout timeout, the rest unknown/api.
C4_FailureClassedByCause ==
    (rq.pc = "done" /\ rq.result.kind = "failure")
    => LET status == rq.response.status
           result == rq.result
       IN  CASE rq.cause = "response" /\ status = 401 -> result.type = "auth"
             [] rq.cause = "response" /\ status = 403 -> result.type = "permission"
             [] rq.cause = "response" /\ status = 404 -> result.type = "not_found"
             [] rq.cause = "response" /\ status >= 500 ->
                    result.type = "server_error" /\ result.status_code = status
             [] rq.cause = "ConnectionError" -> result.type = "network"
             [] rq.cause = "Timeout" -> result.type = "timeout"
             [] OTHER -> result.type \in {"unknown", "api"}

-----------------------------------------------------------------------------
(* Batch creation *)

InBatch == tool.name = "batch_create_tasks_tool" /\ tool.arg # <<>>

\* what the specification calls an invalid task specification
SpecInvalid(task_data) ==
    \/ task_data.title = NoneStr \/ task_data.title.len = 0
    \/ task_data.project_id \in {Absent, None, ""}
    \/ task_data.priority \notin {AbsentInt, NoneInt, 0, 1, 3, 5}
    \/ \E d \in {task_data.start_date, task_data.due_date} :
          d \notin {None, "", "2025-01-15", "2025-01-15T10:30:00",
                    "2025-01-15T10:30:00Z", "2025-01-15T10:30:00+00:00"}

InvalidIndices(tasks) == {i \in 1..Len(tasks) : SpecInvalid(tasks[i])}
IndicesOf(entries) == {entries[k].index : k \in 1..Len(entries)}
GatePassed == InBatch /\ InvalidIndices(tool.arg) = {}

\* C6: in a batch with at least one invalid specification no creation call is
\* made for any specification (and nothing is sent), and the rejection lists
\* one error for the index of every invalid specification and none for a
\* valid one.
C6_InvalidBatchRejectedWhole ==
    (InBatch /\ InvalidIndices(tool.arg) # {})
    => /\ calls = <<>> /\ ~net
       /\ created_tasks = <<>> /\ failed_tasks = <<>>
       /\ tool.pc = "done" /\ tool.ret = "Validation errors found"
       /\ IndicesOf(validation_errors) = InvalidIndices(tool.arg)
       /\ Len(validation_errors) = Cardinality(InvalidIndices(tool.arg))

\* a batch of two whose second task has priority 2 is rejected with that
\* task's error alone
C6_Witness ==
    /\ InBatch /\ Len(tool.arg) = 2
    /\ tool.arg[2].priority = 2
    /\ validation_errors = <<[index |-> 2, error |-> "priority"]>>
    /\ tool.ret = "Validation errors found"

\* the creation calls made so far are those of tasks 1..k, in that order
CallsInOrder == \A k \in 1..Len(calls) : calls[k].index = k
\* no creation call starts before the one before it has ended
OneCallAtATime ==
    /\ \A k \in 1..Len(calls) : calls[k].outcome = "pending" => k = Len(calls)
    /\ (calls # <<>> /\ calls[Len(calls)].outcome = "pending") <=> tool.pc = "call"
    /\ tool.pc = "body" => rq.pc = "idle"

\* C7 as stated: once all specifications pass validation, every specification
\* gets its creation call, once and in input order.
C7_Original ==
    (GatePassed /\ tool.pc = "done")
    => /\ Len(calls) = Len(tool.arg)
       /\ CallsInOrder

\* C7 (amended): once all specifications pass validation and get_client has
\* returned the client, a creation call is attempted for every specification
\* exactly once, in input order, each call ending before the next starts; a
\* failed call does not prevent the calls for the later specifications.  When
\* get_client raises, no creation call is attempted at all.
C7_EverySpecAttemptedInOrder ==
    InBatch
    => /\ CallsInOrder
       /\ OneCallAtATime
       /\ tool.pc \in {"body", "call"} => Len(calls) \in {tool.i - 1, tool.i}
       /\ (GatePassed /\ tool.pc = "done")
          => \/ Len(calls) = Len(tool.arg) /\ tool.exception = ""
             \/ /\ calls = <<>>
                /\ tool.exception \in {"TickTickAuthenticationError", "TickTickAPIError"}

\* the call for the first task failed and the second task was still created
C7_Witness ==
    /\ InBatch /\ tool.pc = "done" /\ Len(tool.arg) = 2
    /\ calls = <<[index |-> 1, outcome |-> "failure"],
                 [index |-> 2, outcome |-> "success"]>>

FailedCalls == {k \in 1..Len(calls) : calls[k].outcome \in {"failure", "raised"}}

\* created_tasks and failed_tasks hold each index once, and no index twice
Partition(n) ==
    /\ IndicesOf(created_tasks) \cup IndicesOf(failed_tasks) = 1..n
    /\ IndicesOf(created_tasks) \cap IndicesOf(failed_tasks) = {}
    /\ Cardinality(IndicesOf(created_tasks)) = Len(created_tasks)
    /\ Cardinality(IndicesOf(failed_tasks)) = Len(failed_tasks)

\* C8 as stated: a batch of N valid specifications of which M creation calls
\* fail ends with N-M created and M failed entries covering 1..N once each.
C8_Original ==
    (GatePassed /\ tool.pc = "done")
    => /\ Len(created_tasks) = Len(tool.arg) - Cardinality(FailedCalls)
       /\ Len(failed_tasks) = Cardinality(FailedCalls)
       /\ Partition(Len(tool.arg))

\* C8 (amended): for a batch of N specifications that all pass validation and
\* for which get_client returned the client, of which M creation calls fail,
\* the result has exactly N-M created and M failed entries, and every index
\* 1..N is in exactly one of the two lists.  (When get_client raises there is
\* no batch result: the tool returns the error message.)
C8_CreatedPlusFailedIsN ==
    (GatePassed /\ tool.pc = "done" /\ tool.ret = "Batch task creation completed")
    => /\ Len(created_tasks) = Len(tool.arg) - Cardinality(FailedCalls)
       /\ Len(failed_tasks) = Cardinality(FailedCalls)
       /\ Partition(Len(tool.arg))

\* N = 2, M = 1: one created and one failed entry
C8_Witness ==
    /\ GatePassed /\ tool.pc = "done" /\ Len(tool.arg) = 2
    /\ Cardinality(FailedCalls) = 1
    /\ Len(created_tasks) = 1 /\ Len(failed_tasks) = 1
    /\ failed_tasks[1].reason = "network"

-----------------------------------------------------------------------------
(* Validation before the network *)

\* the constraints of the fields, for a field that is supplied
TitleViolates(title) ==
    title # NoneStr /\ (title.strip = 0 \/ title.len > 500)
ProjectNameViolates(name) ==
    name # NoneStr /\ (name.strip = 0 \/ name.len > 200)
ContentViolates(content) == content # NoneStr /\ content.len > 10000
PriorityViolates(priority) == priority # NoneInt /\ priority \notin {0, 1, 3, 5}
DateViolates(date_str) ==
    date_str \notin {None, "2025-01-15", "2025-01-15T10:30:00",
                     "2025-01-15T10:30:00Z", "2025-01-15T10:30:00+00:00"}

\* a mutating tool runs with a field outside its constraint
FieldViolation ==
    /\ tool.name \in MutatingTools
    /\ IF tool.name \in {"create_project_tool", "update_project_tool"}
       THEN ProjectNameViolates(tool.arg.name)
       ELSE \/ TitleViolates(tool.arg.title)
            \/ ContentViolates(tool.arg.content)
            \/ PriorityViolates(tool.arg.priority)
            \/ DateViolates(tool.arg.start_date)
            \/ DateViolates(tool.arg.due_date)

\* what a tool answers when it rejects its arguments itself
ValidationOutcomes ==
    {"Invalid priority", "Invalid start_date format", "Invalid due_date format",
     "Validation Error", "No updates provided"}

\* what a tool answers when get_client has raised
ClientUnavailable == {"Authentication Error", "TickTick API Error"}

\* C9: when create_task, update_task, create_subtask, create_project or
\* update_project is given a field that violates its constraint, the
\* operation ends with a validation error and its client method has sent no
\* request.  (What get_client sends to check a new client, and its errors,
\* are left aside: the statement is about the operation's own request.)
C9_ValidationBeforeNetwork ==
    FieldViolation
    => /\ calls = <<>>
       /\ tool.pc = "done"
          => tool.ret \in ValidationOutcomes \cup ClientUnavailable

-----------------------------------------------------------------------------
(* The project scan *)

Scanning == tool.name = "get_all_tasks_tool"
OpenIndices(projects) == {j \in 1..Len(projects) : projects[j] # "true"}

\* C10: a scan never fetches the tasks of a project whose closed flag is
\* true, and it fetches every other project of the list exactly once, in the
\* order of the list: the fetches made so far are those of the non-closed
\* projects before the current position, in increasing order of position,
\* and a finished scan has fetched all the non-closed projects.
C10_ClosedSkippedOthersOnceInOrder ==
    Scanning
    => /\ \A k \in 1..Len(calls) :
             /\ calls[k].index \in 1..Len(tool.arg)
             /\ tool.arg[calls[k].index] # "true"
       /\ \A k \in 1..(Len(calls) - 1) : calls[k].index < calls[k + 1].index
       /\ tool.pc \in {"scan", "fetch"}
          => IndicesOf(calls) =
                {j \in OpenIndices(tool.arg) :
                    j < tool.i \/ (j = tool.i /\ tool.pc = "fetch")}
       /\ (tool.pc = "done" /\ tool.ret = "Found projects")
          => /\ IndicesOf(calls) = OpenIndices(tool.arg)
             /\ IndicesOf(tool.report) = OpenIndices(tool.arg)

\* a list of a closed project and an open one: the only fetch is that of the
\* open project, whose tasks are reported
C10_Witness ==
    /\ Scanning /\ tool.pc = "done"
    /\ tool.arg = <<"true", "false">>
    /\ calls = <<[index |-> 2, outcome |-> "success"]>>
    /\ tool.report = <<[index |-> 2, tasks |-> 1]>>

\* the fetches of the scan that failed, by position in the project list
FailedFetches == {calls[k].index : k \in FailedCalls}

C12_FailedFetchIsReported ==
    Scanning
    => \A k \in 1..Len(tool.report) :
          calls[k].outcome = "failure"
          => tool.report[k] # ReportEntry(tool.report[k].index, 0)

-----------------------------------------------------------------------------
(* The task filters (SpecClassify) *)

\* The predicates as the specification words them, for the task and the
\* clock of the state.  A due date parses when it is a date of the service's
\* format; the due instant and its calendar date are taken in UTC.
DueParses == task.dueDate.kind = "ok"
DueInstant == (task.dueDate.day * 24 + task.dueDate.hour) - task.dueDate.off
NowInstant == now.day * 24 + now.hour
UTCDay(instant) == instant \div 24
overdue == DueParses /\ DueInstant < NowInstant
dueToday == DueParses /\ UTCDay(DueInstant) = UTCDay(NowInstant)
Applied(filter) == filtered.filter = filter

\* C13: the engaged filter is true exactly when priority == 5 or the task is
\* overdue or due today (its due instant falls on the UTC day of now), and it
\* raises nothing.
C13_EngagedIsHighOrOverdueOrToday ==
    Applied("engaged")
    => /\ filtered.exception = ""
       /\ filtered.value <=> (task.priority = 5 \/ overdue \/ dueToday)

\* C14: the overdue filter is false when the due date is absent or does not
\* parse, and otherwise true exactly when the due instant is strictly before
\* now; a task due at the instant of now is not overdue.
C14_OverdueIsStrictlyBeforeNow ==
    Applied("overdue")
    => /\ filtered.exception = ""
       /\ ~DueParses => ~filtered.value
       /\ DueParses => (filtered.value <=> DueInstant < NowInstant)

\* a due date written with offset -0500 that is the instant of now: not
\* overdue
C14_Witness ==
    /\ Applied("overdue")
    /\ DueParses /\ task.dueDate.off = -5
    /\ DueInstant = NowInstant
    /\ ~filtered.value

\* a due date written with offset +0900 one hour before now, on the day
\* after now's as written: overdue
C14_WitnessBefore ==
    /\ Applied("overdue")
    /\ DueParses /\ task.dueDate.off = 9 /\ task.dueDate.day = now.day + 1
    /\ DueInstant < NowInstant
    /\ filtered.value

\* C15: the due-today filter is true exactly when the due date parses and
\* the UTC calendar date of the due instant is the UTC calendar date of now,
\* whatever the offset the due date is written with.
C15_DueTodayComparesUTCDates ==
    Applied("due_today")
    => /\ filtered.exception = ""
       /\ filtered.value <=> dueToday

\* C15 for the due dates written with offset +0000 only
C15_DueTodayAtOffsetZero ==
    (Applied("due_today") /\ task.dueDate.off = 0)
    => /\ filtered.exception = ""
       /\ filtered.value <=> dueToday

\* C16: the next filter is true exactly when priority == 3 or the calendar
\* date of the due date (the date it is written with) is the calendar date
\* of now plus one day.
C16_NextIsMediumOrTomorrow ==
    Applied("next")
    => /\ filtered.exception = ""
       /\ filtered.value <=> \/ task.priority = 3
                             \/ DueParses /\ task.dueDate.day = now.day + 1

\* a task of priority 0 due tomorrow is next
C16_Witness ==
    /\ Applied("next")
    /\ task.priority = 0
    /\ DueParses /\ task.dueDate.day = now.day + 1
    /\ filtered.value

DateFilters == {"due_today", "overdue", "due_in_days", "due_this_week"}

\* C17: for a task whose due date is missing or does not parse, each of the
\* date filters (due today, overdue, due in N days, due within the week)
\* returns false and raises nothing, so the scan that applies it goes on.
C17_BadDateIsFalseNeverRaises ==
    (filtered.filter \in DateFilters /\ ~DueParses)
    => /\ filtered.exception = ""
       /\ ~filtered.value

\* a due date that is not a string, under the week filter
C17_Witness ==
    /\ Applied("due_this_week")
    /\ task.dueDate.kind = "number"
    /\ filtered.exception = "" /\ ~filtered.value

-----------------------------------------------------------------------------
(* The automatic retry of the session *)

\* a session call is running
InSessionCall == rq.pc \in {"send", "resend"}
\* the request of the running session call has been sent again by the adapter
Retried == rq.retried_on.kind # "none"
\* the session call is over, and how many times its request was sent
SessionCallOver == rq.pc = "done" /\ rq.method \in SupportedMethods
Attempts == rq.tries + 1

\* C18 as stated: the request is sent again only after a response of status
\* 429, 500, 502, 503 or 504, and is sent at most 3 times.
C18_Original ==
    /\ Retried => /\ rq.retried_on.kind = "response"
                  /\ rq.retried_on.status \in {429, 500, 502, 503, 504}
    /\ SessionCallOver => Attempts <= 3

\* C18 (amended): within one session call the adapter sends the request
\* again only after a response of status 429, 500, 502, 503 or 504 or after
\* an exchange that failed below HTTP (connection error, read timeout), never
\* after any other status, 4xx or not; it sends it again at most 3 times, so
\* the request is sent at most 4 times.  A 401 is never retried by the
\* adapter: it is left to the refresh path.
C18_RetryOnForcelistOrFailure ==
    /\ rq.tries <= 3
    /\ SessionCallOver => Attempts <= 4
    /\ Retried <=> (InSessionCall /\ rq.tries > 0)
    /\ Retried
       => \/ /\ rq.retried_on.kind = "response"
             /\ rq.retried_on.status \in {429, 500, 502, 503, 504}
          \/ rq.retried_on.kind \in {"ConnectionError", "ReadTimeout"}

\* the request has been sent again three times, the last time after a 500:
\* its fourth attempt is under way
C18_Witness ==
    /\ InSessionCall
    /\ rq.tries = 3
    /\ rq.retried_on = [kind |-> "response", status |-> 500]

-----------------------------------------------------------------------------
(* C19: what a successful refresh changes *)

\* the step in which _refresh_access_token returns True
RefreshSucceeds == rq.pc = "refresh" /\ rq'.pc = "resend"

\* a step that sends a request through the session
SessionCall == rq.pc \in {"send", "resend"}

\* the instance is the same object before and after the step
SameClient == _client_instance.set /\ _client_instance'.set

\* C19: after a successful refresh the in-memory access token is the one the
\* token endpoint returned (None when the response has no access_token) and
\* the Authorization header is "Bearer " followed by it; the refresh token is
\* replaced only when the response carries one; client id and client secret
\* are unchanged.  Every session call sends the instance's Authorization
\* header, which always carries the in-memory access token, and no step other
\* than a successful refresh changes the tokens of an instance.
C19_RefreshReplacesTokensInPlace ==
    [][ /\ RefreshSucceeds =>
            /\ SameClient
            /\ _client_instance'.access_token = Get(rq'.tokens.access_token, None)
            /\ _client_instance'.Authorization = Bearer(_client_instance'.access_token)
            /\ _client_instance'.refresh_token =
                  IF rq'.tokens.refresh_token # Absent
                  THEN rq'.tokens.refresh_token
                  ELSE _client_instance.refresh_token
            /\ _client_instance'.client_id = _client_instance.client_id
            /\ _client_instance'.client_secret = _client_instance.client_secret
        /\ (SameClient /\ ~RefreshSucceeds) => _client_instance' = _client_instance
        /\ SessionCall =>
            /\ rq'.headers = _client_instance.Authorization
            /\ rq'.headers = Bearer(_client_instance.access_token)
        /\ _client_instance'.set =>
            /\ _client_instance'.client_id = env.TICKTICK_CLIENT_ID
            /\ _client_instance'.client_secret = env.TICKTICK_CLIENT_SECRET
      ]_vars

\* a request re-sent after a refresh whose response carried a new access token
\* and no refresh token: the re-sent request carried the new access token and
\* the refresh token is the old one
C19_Witness ==
    /\ rq.pc = "done" /\ rq.refreshed = "true"
    /\ rq.tokens = [access_token |-> "a1", refresh_token |-> Absent]
    /\ _client_instance.set
    /\ _client_instance.access_token = "a1"
    /\ rq.headers = "Bearer a1"
    /\ _client_instance.refresh_token = "r0"
    /\ _client_instance.client_secret = "secret"

-----------------------------------------------------------------------------
(* C20: a 204 and an empty body *)

\* the transport call ended with a response that is a 204 or has no body
FinalEmpty ==
    /\ rq.pc = "done" /\ rq.cause = "response"
    /\ (rq.response.status = 204 \/ rq.response.body = "")

\* the step in which the caller takes the result of the transport call
ResultTaken == rq.pc = "done" /\ rq' = IdleRq

\* the caller went on as after a success
TreatedAsSuccess ==
    CASE tool.pc = "check" -> tool'.pc = "body"
      [] tool.name = "_make_request" -> tool'.ret = "success"
      [] tool.name = "batch_create_tasks_tool" ->
            /\ Len(created_tasks') = Len(created_tasks) + 1
            /\ failed_tasks' = failed_tasks
      [] tool.name \in MutatingTools -> tool'.ret = "successfully"
      [] tool.name = "get_all_tasks_tool" /\ tool.pc = "fetch" ->
            /\ tool'.pc = "scan" /\ tool'.i = tool.i + 1
            /\ tool'.report = Append(tool.report, ReportEntry(tool.i, 0))
      [] tool.name = "get_all_tasks_tool" /\ tool.pc = "projects" ->
            tool'.pc = "scan" \/ tool'.ret = "No projects found."
      [] OTHER -> FALSE

\* the caller of a list endpoint answers that the format is unexpected
ListCallerRefuses ==
    /\ tool.name = "get_all_tasks_tool" /\ tool.pc = "projects"
    /\ tool'.pc = "done" /\ tool'.ret = "Unexpected response format"

\* C20 as stated: every final response that is a 204 or has an empty body
\* makes the transport call return the empty successful payload, and every
\* caller treats that payload as a success.
C20_Original ==
    /\ [](FinalEmpty => rq.result = Success("{}"))
    /\ [][(ResultTaken /\ rq.result = Success("{}")) => TreatedAsSuccess]_vars

\* C20: a final response whose status is no error status (below 400) and that
\* is a 204 or has an empty body makes the transport call return the empty
\* payload {} with no failure kind, status code or error attached; a final
\* response with an error status is a failure whether it has a body or not.
\* A caller that expects an object treats {} as a success; the caller of a
\* list endpoint (get_all_tasks_tool after get_projects) answers "Unexpected
\* response format".
C20_EmptyBodyOfSuccessIsEmptyPayload ==
    /\ [](FinalEmpty =>
            IF raise_for_status(rq.response)
            THEN rq.result.kind = "failure"
            ELSE /\ rq.result = Success("{}")
                 /\ rq.result.kind = "success" /\ rq.result.type = ""
                 /\ rq.result.status_code = NoneInt /\ rq.result.error = "")
    /\ [][(ResultTaken /\ rq.result = Success("{}")) =>
              IF tool.name = "get_all_tasks_tool" /\ tool.pc = "projects"
              THEN ListCallerRefuses
              ELSE TreatedAsSuccess]_vars

\* the batch tool recorded a task as created whose creation call returned {}
C20_Witness ==
    /\ tool.name = "batch_create_tasks_tool"
    /\ created_tasks # <<>>
    /\ created_tasks[Len(created_tasks)].result = "{}"

-----------------------------------------------------------------------------
(* C21: the entries of a batch result *)

\* the indices of a list of entries rise strictly
Rising(entries) ==
    \A k \in 1..Len(entries) - 1 : entries[k].index < entries[k + 1].index

\* every entry has the index and the title of a specification of the batch
KeepsIndexAndTitle(entries) ==
    \A k \in 1..Len(entries) :
        /\ entries[k].index \in 1..Len(tool.arg)
        /\ entries[k].title = tool.arg[entries[k].index].title

\* created_tasks and failed_tasks are in input order with the index and the
\* title of their specifications
C21_EntriesInInputOrder ==
    InBatch
    => /\ Rising(created_tasks) /\ Rising(failed_tasks)
       /\ KeepsIndexAndTitle(created_tasks) /\ KeepsIndexAndTitle(failed_tasks)

\* the step in which the error dict of client.create_task is recorded
FailureRecorded ==
    /\ tool.name = "batch_create_tasks_tool" /\ tool.pc = "call"
    /\ rq.pc = "done" /\ rq.result.kind = "failure"
    /\ Len(failed_tasks') = Len(failed_tasks) + 1

\* C21: both lists of a batch result are in input order and every entry keeps
\* the index and the title of its specification; the failed entry written for
\* a failure carries the kind (type) and the message (error) of that failure.
C21_EntriesKeepIndexTitleKindMessage ==
    /\ []C21_EntriesInInputOrder
    /\ [][FailureRecorded =>
            LET entry == failed_tasks'[Len(failed_tasks')]
            IN  /\ entry.reason = rq.result.type
                /\ entry.message = rq.result.error]_vars

-----------------------------------------------------------------------------
(* C22: handle_mcp_errors *)

\* a wrapped function or tool has ended
WrappedOver == tool.pc = "done" /\ Wrapped(tool.name)
\* the function under the wrapper, and what it did
FuncOver == tool.pc = "done" /\ tool.name = "func"
Outcome == tool.arg[1]

\* the message the claim names for an exception, by its type
ClassedMessage(exception) ==
    CASE exception = "TickTickAuthenticationError" -> "Authentication Error"
      [] exception = "TickTickRateLimitError" -> "Rate Limit Exceeded"
      [] exception = "TickTickAPIError" -> "TickTick API Error"
      [] exception = "TickTickNetworkError" -> "Network Error"
      [] exception \in {"ValueError", "UnicodeDecodeError"} -> "Validation Error"
      [] OTHER -> "Unexpected Error"

\* C22 as stated: no exception leaves the wrapper; a result is returned
\* unchanged, every raised exception becomes the message of its type, and
\* the rate limit message names the retry-after seconds whenever they are set.
C22_Original ==
    /\ WrappedOver => tool.ret # "raised"
    /\ (WrappedOver /\ tool.name # "func" /\ tool.exception # "")
       => tool.ret = ClassedMessage(tool.exception)
    /\ FuncOver
       => IF Outcome.raises = "" THEN tool.ret = Outcome.result
          ELSE IF Outcome.raises = "TickTickRateLimitError"
                  /\ Outcome.retry_after # NoneInt
          THEN tool.ret = "Rate Limit Exceeded Please retry after "
                          \o ToString(Outcome.retry_after) \o " seconds."
          ELSE tool.ret = ClassedMessage(Outcome.raises)

\* C22 (amended): an exception that derives from Exception never leaves the
\* wrapper: it becomes the message of its type (a class derived from
\* ValueError counts as ValueError), and the rate limit message names the
\* retry-after seconds when they are set and not 0; a result is returned
\* unchanged.  An exception that derives from BaseException only (the
\* CancelledError of a cancelled call, KeyboardInterrupt) is propagated.
C22_ExceptionsBecomeClassedMessages ==
    /\ (WrappedOver /\ tool.name # "func" /\ tool.exception # "")
       => tool.ret = ClassedMessage(tool.exception)
    /\ FuncOver
       => IF Outcome.raises = "" THEN tool.ret = Outcome.result
          ELSE IF Outcome.raises \in {"CancelledError", "KeyboardInterrupt"}
          THEN tool.ret = "raised"
          ELSE IF Outcome.raises = "TickTickRateLimitError"
                  /\ Outcome.retry_after \notin {NoneInt, 0}
          THEN tool.ret = "Rate Limit Exceeded Please retry after "
                          \o ToString(Outcome.retry_after) \o " seconds."
          ELSE tool.ret = ClassedMessage(Outcome.raises)

\* a function that raised a class derived from ValueError
C22_Witness ==
    /\ FuncOver
    /\ Outcome.raises = "UnicodeDecodeError"
    /\ tool.ret = "Validation Error"

-----------------------------------------------------------------------------
(* C23: the error class of a failed connectivity check *)

\* the step in which get_client takes the failed result of its get_projects
CheckFails ==
    /\ tool.pc = "check" /\ rq.pc = "done" /\ rq.result.kind = "failure"
    /\ tool'.pc = "done"

\* the failure was one of network connectivity: no response came
NetworkFailed == rq.result.type \in {"network", "timeout"}
\* the service rejected the tokens
TokensRejected == rq.cause = "response" /\ rq.response.status = 401

\* the step in which get_client finds no usable access token
TokensMissing ==
    /\ tool.pc = "get_client" /\ ~_client_instance.set
    /\ ~Truthy(env.TICKTICK_ACCESS_TOKEN)

\* C23: when the connectivity check of get_client fails the class of the
\* raised error matches the cause: TickTickNetworkError for a failure of
\* network connectivity, TickTickAuthenticationError for missing or rejected
\* tokens, TickTickAPIError for any other error of the API.
C23_ErrorClassMatchesCause ==
    [][ /\ TokensMissing => tool'.exception = "TickTickAuthenticationError"
        /\ CheckFails =>
              tool'.exception =
                 IF NetworkFailed THEN "TickTickNetworkError"
                 ELSE IF TokensRejected THEN "TickTickAuthenticationError"
                 ELSE "TickTickAPIError"
      ]_vars

-----------------------------------------------------------------------------
(* C24, C25, C28: the cached client instance *)

\* a step of get_client that finds an instance cached
CachedLookup == tool.pc = "get_client" /\ _client_instance.set

\* get_client has returned the instance: it is cached and its connectivity
\* check is over
ClientReturned == _client_instance.set /\ tool.pc # "check"

\* C24: once get_client has returned a client, every later get_client call
\* returns that instance and sends no request: no client is built and the
\* connectivity check is not repeated.  Nothing drops a returned instance
\* (reset_client does not either, see C25), and only a refresh changes it.
C24_CachedClientIsReused ==
    [][ /\ CachedLookup =>
              /\ _client_instance' = _client_instance
              /\ rq' = rq /\ rq.pc = "idle" /\ net' = net
              /\ tool'.pc = "body" /\ tool'.exception = ""
        /\ ClientReturned =>
              /\ _client_instance'.set
              /\ rq.pc # "refresh" => _client_instance' = _client_instance
      ]_vars

\* a get_client call that sent nothing and returned the cached instance,
\* whose access token a refresh of an earlier call had replaced
C24_Witness ==
    /\ tool.name = "get_client" /\ tool.pc = "done" /\ tool.ret = "client"
    /\ ~net
    /\ _client_instance.set /\ _client_instance.access_token = "a1"

\* a step of reset_client with an instance cached
ResetOfCached == tool.pc = "idle" /\ tool'.name = "reset_client" /\ _client_instance.set

\* C25: after reset_client is called while a client is cached, no instance
\* is cached any more and reset_client returns without error (so that the
\* next get_client builds a new client and repeats the connectivity check).
C25_ResetDropsTheInstance ==
    [][ResetOfCached => /\ ~_client_instance'.set
                        /\ tool'.exception = ""]_vars

\* get_client or initialize_client is over
GetClientOver == tool.pc = "done" /\ tool.name \in {"get_client", "initialize_client"}

\* C28: an instance is cached only if its connectivity check succeeded: an
\* instance appears only when get_client starts the check, stays after the
\* check exactly when the check did not fail, and is cached at the end of a
\* get_client or initialize_client call exactly when the call did not raise
\* (initialize_client: returned True).
C28_CachedOnlyAfterSuccessfulCheck ==
    /\ [](GetClientOver
          => /\ _client_instance.set <=> tool.exception = ""
             /\ tool.name = "initialize_client"
                => (tool.ret = "False" <=> tool.exception # "")
             /\ tool.name = "initialize_client" => tool.ret \in {"True", "False"})
    /\ [][ /\ (~_client_instance.set /\ _client_instance'.set)
              => tool.pc = "get_client" /\ tool'.pc = "check"
           /\ (tool.pc = "check" /\ tool'.pc # "check")
              => (_client_instance'.set <=> rq.result.kind # "failure")
         ]_vars

\* initialize_client returned False after a failed connectivity check that
\* had sent a request: nothing is cached
C28_Witness ==
    /\ tool.name = "initialize_client" /\ tool.pc = "done" /\ tool.ret = "False"
    /\ net
    /\ ~_client_instance.set

-----------------------------------------------------------------------------
(* C26: one now for one evaluation (SpecClassify) *)

\* what the filter of the state gives for the task when every predicate of
\* it is evaluated against the one clock value `clock`
AtOneNow(clock) ==
    CASE Applied("engaged") -> engaged_filter(task, clock, clock)
      [] Applied("next") -> next_filter(task, clock)
      [] Applied("due_today") -> _is_task_due_today(task, clock)
      [] Applied("overdue") -> _is_task_overdue(task, clock)
      [] Applied("due_in_days") -> _is_task_due_in_days(task, filtered.days, clock)
      [] Applied("due_this_week") -> week_filter(task, clock)

\* C26: within one evaluation of a filter, composite or not, every date
\* predicate is evaluated against the same now, the one the evaluation began
\* with: the result depends on the task and on that now only, even if the
\* clock advances meanwhile.
C26_OneNowPerEvaluation ==
    ~Unfiltered
    => /\ filtered.value = AtOneNow(filtered.clock).value
       /\ filtered.exception = AtOneNow(filtered.clock).exception

\* the same, for the evaluations during which the clock stood still
C26_OneNowWhenClockStands ==
    (~Unfiltered /\ now = filtered.clock)
    => /\ filtered.value = AtOneNow(now).value
       /\ filtered.exception = AtOneNow(now).exception

\* the engaged filter gave False for a task that is engaged at the now the
\* evaluation began with and at the now it ended with
C26_NeitherNow ==
    /\ Applied("engaged") /\ ~filtered.value
    /\ AtOneNow(filtered.clock).value
    /\ AtOneNow(now).value

-----------------------------------------------------------------------------
(* C27: the batch gate and create_task's validation *)

\* the gate of batch_create_tasks_tool let the whole batch through
GateLetThrough ==
    /\ InBatch
    /\ \A i \in 1..Len(tool.arg) : _validate_task_data(tool.arg[i]) = ""

\* create_task's own validation of a specification, with the priority the
\* loop hands over
ClientAccepts(task_data) ==
    create_task_validation(task_data.title, task_data.content,
                           IF task_data.priority = AbsentInt THEN 0
                           ELSE task_data.priority,
                           task_data.start_date, task_data.due_date) = ""

\* C27: every specification the gate (_validate_task_data) accepts is also
\* accepted by create_task's own validation, so after the gate has passed no
\* specification ends in the failed list for a validation reason.
C27_GateSubsumesClientValidation ==
    GateLetThrough
    => /\ \A i \in 1..Len(tool.arg) : ClientAccepts(tool.arg[i])
       /\ \A k \in 1..Len(failed_tasks) : failed_tasks[k].reason # "exception"

-----------------------------------------------------------------------------
(* C29: a transport call ends (SpecTransport) *)

\* a transport call is under way
InFlight == rq.pc \in {"send", "resend", "refresh"}

-----------------------------------------------------------------------------
(* C30: the access token and the header of an instance *)

\* the step in which _refresh_access_token returns False
RefreshFails == rq.pc = "refresh" /\ rq'.pc = "done"

\* the header carries the in-memory access token
HeaderCarriesToken ==
    _client_instance.set
    => _client_instance.Authorization = Bearer(_client_instance.access_token)

\* a refresh that fails changes nothing of the instance
FailedRefreshChangesNothing ==
    [][RefreshFails => _client_instance' = _client_instance]_vars

\* C30: after any sequence of transport calls, with refreshes that succeed
\* and refreshes that fail, the in-memory access token is never absent or
\* empty and the Authorization header is "Bearer " followed by the current
\* access token; a failed refresh leaves access token, refresh token and
\* header unchanged.
C30_AccessTokenAlwaysPresent ==
    /\ [](_client_instance.set => Truthy(_client_instance.access_token))
    /\ []HeaderCarriesToken
    /\ FailedRefreshChangesNothing

=============================================================================
